---- MODULE Spec2Model ----
(***************************************************************************)
(* Brazil Law MCP: the citation resolution engine.                         *)
(*                                                                         *)
(* A string is a sequence of characters.  An ASCII character is the        *)
(* one-character string of itself; a character outside ASCII carries the   *)
(* name of its code point:                                                 *)
(*   "ORD_M" U+00BA   "ORD_F" U+00AA   "DEG" U+00B0   "SECT" U+00A7         *)
(*   "COMB_ACUTE" U+0301  "COMB_TILDE" U+0303  "COMB_CEDILLA" U+0327        *)
(*   "a_ACUTE" U+00E1  "o_ACUTE" U+00F3  "u_ACUTE" U+00FA  "i_ACUTE" U+00ED *)
(*   "c_CEDILLA" U+00E7  "a_TILDE" U+00E3   "TAB" U+0009                    *)
(* An optional value (a field that may be undefined) is <<>> when absent   *)
(* and <<v>> when present.                                                 *)
(***************************************************************************)
EXTENDS Integers, Sequences, FiniteSets, TLC

VARIABLES pc, arg, given, parsed,          \* a call of parseCitation
          format, formatted,                 \* a call of formatCitation
          db,                                \* the document store
          inputId, candidates, resolved,     \* the statute-id resolver
          validation, queries,               \* a call of validateCitation
          request, response,                 \* a call of getProvision
          context, tool, reply,              \* the tool-call handler
          now, lastRequestTime, calls, issued  \* the ingestion HTTP client

vars == <<pc, arg, given, parsed, format, formatted, db,
          inputId, candidates, resolved, validation, queries,
          request, response, context, tool, reply,
          now, lastRequestTime, calls, issued>>

\* The variables the parser's calls leave alone.
formatterVars == <<format, formatted>>
statuteVars   == <<inputId, candidates, resolved>>
validatorVars == <<validation, queries>>
provisionVars == <<request, response>>
toolVars      == <<context, tool, reply>>
fetcherVars   == <<now, lastRequestTime, calls, issued>>

None == <<>>
Some(v) == <<v>>

\* const x = v; Body(x): the value is computed once.
With(v, Body(_)) == CHOOSE r \in {Body(x) : x \in {v}} : TRUE

(***************************************************************************)
(* Characters                                                              *)
(***************************************************************************)
Digits == {"0","1","2","3","4","5","6","7","8","9"}

LowerLetters ==
  {"a","b","c","d","e","f","g","h","i","j","k","l","m",
   "n","o","p","q","r","s","t","u","v","w","x","y","z"}

UpperLetters ==
  {"A","B","C","D","E","F","G","H","I","J","K","L","M",
   "N","O","P","Q","R","S","T","U","V","W","X","Y","Z"}

\* String.prototype.toLowerCase on one character of the alphabet.
LowerOf ==
  [c \in UpperLetters |->
     CASE c = "A" -> "a" [] c = "B" -> "b" [] c = "C" -> "c" [] c = "D" -> "d"
       [] c = "E" -> "e" [] c = "F" -> "f" [] c = "G" -> "g" [] c = "H" -> "h"
       [] c = "I" -> "i" [] c = "J" -> "j" [] c = "K" -> "k" [] c = "L" -> "l"
       [] c = "M" -> "m" [] c = "N" -> "n" [] c = "O" -> "o" [] c = "P" -> "p"
       [] c = "Q" -> "q" [] c = "R" -> "r" [] c = "S" -> "s" [] c = "T" -> "t"
       [] c = "U" -> "u" [] c = "V" -> "v" [] c = "W" -> "w" [] c = "X" -> "x"
       [] c = "Y" -> "y" [] c = "Z" -> "z"]

LowerChar(c) == IF c \in UpperLetters THEN LowerOf[c] ELSE c

toLowerCase(s) == [i \in 1..Len(s) |-> LowerChar(s[i])]

\* White space of String.prototype.trim and of the regular expressions' \s.
WhiteSpace == {" ", "TAB"}

\* \w of a regular expression without the u flag.
WordChars == LowerLetters \cup UpperLetters \cup Digits \cup {"_"}

\* The combining marks U+0300..U+036F of the alphabet.
CombiningMarks == {"COMB_ACUTE", "COMB_TILDE", "COMB_CEDILLA"}

\* The characters of the alphabet that have a canonical decomposition.
Precomposed ==
  {"a_ACUTE", "o_ACUTE", "u_ACUTE", "i_ACUTE", "c_CEDILLA", "a_TILDE"}

\* Canonical decomposition (NFD) of one character.
NFDChar(c) ==
  CASE c = "a_ACUTE"   -> <<"a", "COMB_ACUTE">>
    [] c = "o_ACUTE"   -> <<"o", "COMB_ACUTE">>
    [] c = "u_ACUTE"   -> <<"u", "COMB_ACUTE">>
    [] c = "i_ACUTE"   -> <<"i", "COMB_ACUTE">>
    [] c = "c_CEDILLA" -> <<"c", "COMB_CEDILLA">>
    [] c = "a_TILDE"   -> <<"a", "COMB_TILDE">>
    [] OTHER           -> <<c>>

\* s.normalize('NFD'): the decompositions of the characters of s, one after
\* the other (computed by halves).
RECURSIVE NFD(_)
NFD(s) ==
  IF s = <<>> THEN <<>>
  ELSE IF Len(s) = 1 THEN NFDChar(s[1])
  ELSE NFD(SubSeq(s, 1, Len(s) \div 2))
         \o NFD(SubSeq(s, Len(s) \div 2 + 1, Len(s)))

\* s.replace(/[\u0300-\u036f]/g, '')
StripMarks(s) == SelectSeq(s, LAMBDA c : c \notin CombiningMarks)

removeAccents(s) == StripMarks(NFD(s))

\* String.prototype.trim: s from its first to its last character that is
\* no white space.
trim(s) ==
  LET black == {i \in 1..Len(s) : s[i] \notin WhiteSpace}
  IN IF black = {} THEN <<>>
     ELSE SubSeq(s, CHOOSE i \in black : \A j \in black : i <= j,
                    CHOOSE i \in black : \A j \in black : j <= i)

\* The normalizer of the parser: removeAccents(citation.trim()).
normalize(s) == removeAccents(trim(s))

DigitVal(c) ==
  CASE c = "0" -> 0 [] c = "1" -> 1 [] c = "2" -> 2 [] c = "3" -> 3
    [] c = "4" -> 4 [] c = "5" -> 5 [] c = "6" -> 6 [] c = "7" -> 7
    [] c = "8" -> 8 [] c = "9" -> 9

\* parseInt(s, 10) of a string of digits.
RECURSIVE parseInt(_)
parseInt(s) ==
  IF s = <<>> THEN 0
  ELSE 10 * parseInt(SubSeq(s, 1, Len(s) - 1)) + DigitVal(s[Len(s)])

\* s.replace(/\./g, '')
RemoveDots(s) == SelectSeq(s, LAMBDA c : c # ".")

(***************************************************************************)
(* Regular expressions: a backtracking matcher with the priorities of the  *)
(* ECMAScript one (greedy quantifiers, alternatives left to right), the    *)
(* i flag on every expression.  A node is one of                           *)
(*   set  one character whose lower-case form is in the set                *)
(*   dot  one character that is no line terminator (the alphabet has none) *)
(*   lit  the characters of a word, one after the other                    *)
(*   cat  a sequence of nodes          alt  a | b                          *)
(*   star c* and plus c+ of a set or dot                                   *)
(*   opt  r?     grp  the capture group n      bol  ^      eol  $          *)
(* Matching a node from a position gives every way to match it, as the     *)
(* sequence of outcomes [end, caps] in the order backtracking tries them;  *)
(* the match of an expression is the first outcome.                        *)
(***************************************************************************)
Set(S)     == [t |-> "set", set |-> S]
Dot        == [t |-> "dot"]
Lit(w)     == [t |-> "lit", w |-> w]
Cat(rs)    == [t |-> "cat", rs |-> rs]
Alt(a, b)  == [t |-> "alt", a |-> a, b |-> b]
Star(c)    == [t |-> "star", c |-> c]
Plus(c)    == [t |-> "plus", c |-> c]
Opt(r)     == [t |-> "opt", r |-> r]
Grp(n, r)  == [t |-> "grp", n |-> n, r |-> r]
Bol        == [t |-> "bol"]
Eol        == [t |-> "eol"]

\* Whether the set or dot node c matches the character ch.
Accepts(c, ch) == c.t = "dot" \/ LowerChar(ch) \in c.set

\* The length of the longest run of characters of s from position i that
\* the set or dot node c matches.
Run(c, s, i) ==
  CHOOSE k \in 0..(Len(s) + 1 - i) :
    /\ \A j \in i..(i + k - 1) : Accepts(c, s[j])
    /\ i + k > Len(s) \/ ~Accepts(c, s[i + k])

RECURSIVE Match(_, _, _, _)
RECURSIVE MatchEach(_, _, _)
RECURSIVE MatchSeq(_, _, _, _)

Match(re, s, i, caps) ==
  CASE re.t = "set" \/ re.t = "dot" ->
         IF i <= Len(s) /\ Accepts(re, s[i])
         THEN <<[end |-> i + 1, caps |-> caps]>> ELSE <<>>
    [] re.t = "lit" ->
         IF /\ i + Len(re.w) - 1 <= Len(s)
            /\ \A k \in 1..Len(re.w) : LowerChar(s[i + k - 1]) = re.w[k]
         THEN <<[end |-> i + Len(re.w), caps |-> caps]>> ELSE <<>>
    [] re.t = "star" ->
         LET n == Run(re.c, s, i)
         IN [k \in 1..(n + 1) |-> [end |-> i + n + 1 - k, caps |-> caps]]
    [] re.t = "plus" ->
         LET n == Run(re.c, s, i)
         IN [k \in 1..n |-> [end |-> i + n + 1 - k, caps |-> caps]]
    [] re.t = "opt" ->
         Match(re.r, s, i, caps) \o <<[end |-> i, caps |-> caps]>>
    [] re.t = "alt" -> Match(re.a, s, i, caps) \o Match(re.b, s, i, caps)
    [] re.t = "grp" ->
         LET inner == Match(re.r, s, i, caps)
         IN [k \in 1..Len(inner) |->
               [end  |-> inner[k].end,
                caps |-> [inner[k].caps EXCEPT ![re.n] = <<i, inner[k].end>>]]]
    [] re.t = "cat" ->
         MatchSeq(re.rs, 1, s, <<[end |-> i, caps |-> caps]>>)
    [] re.t = "bol" ->
         IF i = 1 THEN <<[end |-> i, caps |-> caps]>> ELSE <<>>
    [] re.t = "eol" ->
         IF i = Len(s) + 1 THEN <<[end |-> i, caps |-> caps]>> ELSE <<>>

\* The outcomes of node re from each of the outcomes outs, in order
\* (computed by halves).
MatchEach(re, s, outs) ==
  IF outs = <<>> THEN <<>>
  ELSE IF Len(outs) = 1 THEN Match(re, s, outs[1].end, outs[1].caps)
  ELSE MatchEach(re, s, SubSeq(outs, 1, Len(outs) \div 2))
         \o MatchEach(re, s, SubSeq(outs, Len(outs) \div 2 + 1, Len(outs)))

\* The outcomes of the nodes rs[k], rs[k+1], ... from the outcomes outs.
MatchSeq(rs, k, s, outs) ==
  IF k > Len(rs) \/ outs = <<>> THEN outs
  ELSE MatchSeq(rs, k + 1, s, MatchEach(rs[k], s, outs))

NoMatch == [ok |-> FALSE]

\* The captures of an expression with n groups, none of them set.
NoCaps(n) == [k \in 1..n |-> None]

\* The match of re (n groups) that starts at position start, if any.
MatchAt(re, n, s, start) ==
  LET outs == Match(re, s, start, NoCaps(n))
  IN IF outs = <<>> THEN NoMatch
     ELSE [ok |-> TRUE, end |-> outs[1].end, caps |-> outs[1].caps]

\* String.prototype.match without the g flag: the match at the leftmost
\* position that has one.
Exec(re, n, s) ==
  LET starts == {p \in 1..(Len(s) + 1) : MatchAt(re, n, s, p).ok}
  IN IF starts = {} THEN NoMatch
     ELSE MatchAt(re, n, s, CHOOSE p \in starts : \A q \in starts : p <= q)

\* match[k] of a successful match: the text of group k, or undefined.
Group(m, s, k) ==
  IF m.caps[k] = None THEN None
  ELSE Some(SubSeq(s, m.caps[k][1], m.caps[k][2] - 1))

(***************************************************************************)
(* The tables and the expressions of the parser                            *)
(***************************************************************************)
\* Portuguese month names for date parsing.
MONTHS ==
  { <<"j","a","n","e","i","r","o">>, <<"f","e","v","e","r","e","i","r","o">>, <<"m","a","r","c","o">>, <<"a","b","r","i","l">>,
    <<"m","a","i","o">>, <<"j","u","n","h","o">>, <<"j","u","l","h","o">>, <<"a","g","o","s","t","o">>,
    <<"s","e","t","e","m","b","r","o">>, <<"o","u","t","u","b","r","o">>, <<"n","o","v","e","m","b","r","o">>, <<"d","e","z","e","m","b","r","o">> }

AliasEntry(type, number, year) ==
  [type |-> Some(type), number |-> Some(number), year |-> Some(year)]

\* Alias map for well-known laws: the own properties of the object.
ALIAS_MAP ==
  { <<<<"l","g","p","d">>, AliasEntry(<<"l","e","i">>, 13709, 2018)>>,
    <<<<"m","a","r","c","o"," ","c","i","v","i","l">>, AliasEntry(<<"l","e","i">>, 12965, 2014)>>,
    <<<<"m","a","r","c","o"," ","c","i","v","i","l"," ","d","a"," ","i","n","t","e","r","n","e","t">>, AliasEntry(<<"l","e","i">>, 12965, 2014)>>,
    <<<<"c","d","c">>, AliasEntry(<<"l","e","i">>, 8078, 1990)>>,
    <<<<"c","o","d","i","g","o"," ","d","e"," ","d","e","f","e","s","a"," ","d","o"," ","c","o","n","s","u","m","i","d","o","r">>, AliasEntry(<<"l","e","i">>, 8078, 1990)>>,
    <<<<"c","o","d","i","g","o"," ","c","i","v","i","l">>, AliasEntry(<<"l","e","i">>, 10406, 2002)>>,
    <<<<"c","a","r","o","l","i","n","a"," ","d","i","e","c","k","m","a","n","n">>, AliasEntry(<<"l","e","i">>, 12737, 2012)>>,
    <<<<"c","o","n","s","t","i","t","u","i","c","a","o">>, AliasEntry(<<"c","o","n","s","t","i","t","u","i","c","a","o">>, 0, 1988)>>,
    <<<<"c","f">>, AliasEntry(<<"c","o","n","s","t","i","t","u","i","c","a","o">>, 0, 1988)>>,
    <<<<"c","f","/","8","8">>, AliasEntry(<<"c","o","n","s","t","i","t","u","i","c","a","o">>, 0, 1988)>> }

\* The properties every object literal inherits from Object.prototype whose
\* names are lower-case: obj['constructor'] is the function Object and
\* obj['__proto__'] is Object.prototype, both truthy, neither with a type,
\* number or year property.
ObjectPrototype ==
  { <<<<"c","o","n","s","t","r","u","c","t","o","r">>, [type |-> None, number |-> None, year |-> None]>>,
    <<<<"_","_","p","r","o","t","o","_","_">>, [type |-> None, number |-> None, year |-> None]>> }

\* obj[key] of an object literal with the own properties own: the own
\* property, else the inherited one, else undefined.
Lookup(own, key) ==
  LET mine  == {e \in own : e[1] = key}
      proto == {e \in ObjectPrototype : e[1] = key}
  IN IF mine # {} THEN Some((CHOOSE e \in mine : TRUE)[2])
     ELSE IF proto # {} THEN Some((CHOOSE e \in proto : TRUE)[2])
     ELSE None

\* Map Portuguese type labels to internal type codes.
TYPE_MAP ==
  { <<<<"l","e","i">>, <<"l","e","i">>>>,
    <<<<"l","e","i"," ","c","o","m","p","l","e","m","e","n","t","a","r">>, <<"l","c">>>>,
    <<<<"m","e","d","i","d","a"," ","p","r","o","v","i","s","o","r","i","a">>, <<"m","p">>>>,
    <<<<"d","e","c","r","e","t","o">>, <<"d","e","c","r","e","t","o">>>>,
    <<<<"c","o","n","s","t","i","t","u","i","c","a","o">>, <<"c","o","n","s","t","i","t","u","i","c","a","o">>>> }

\* A slip in the label table: every label taken for an ordinary law.
TypeOfLabelAlwaysLei(rawType) == <<"l","e","i">>

\* TYPE_MAP[rawType] ?? 'lei'
TypeOfLabel(rawType) ==
  LET mine == {e \in TYPE_MAP : e[1] = rawType}
  IN IF mine # {} THEN (CHOOSE e \in mine : TRUE)[2] ELSE <<"l","e","i">>

WS == Set(WhiteSpace)
D  == Set(Digits)

\* [ºªo°]
OrdinalMarks == {"ORD_M", "ORD_F", "o", "DEG"}

\* s.replace(/[ºªo°]+$/i, '').trim()
RECURSIVE DropOrdinals(_)
DropOrdinals(s) ==
  IF s # <<>> /\ LowerChar(s[Len(s)]) \in OrdinalMarks
  THEN DropOrdinals(SubSeq(s, 1, Len(s) - 1)) ELSE s

stripOrdinal(s) == trim(DropOrdinals(s))

\* (\d+[ºªo°]?)
OrdinalNumber == Cat(<<Plus(D), Opt(Set(OrdinalMarks))>>)

\* ^art\.?\s*(\d+[ºªo°]?)\s*,?\s*
ArticleHead ==
  Cat(<<Bol, Lit(<<"a","r","t">>), Opt(Set({"."})), Star(WS), Grp(1, OrdinalNumber),
        Star(WS), Opt(Set({","})), Star(WS)>>)

\* (lei|lei complementar|medida provis[oó]ria|decreto)\s+(?:n[ºo.]?\s*)?(\d[\d.]*)
LabelAndNumber ==
  Cat(<<Grp(2, Alt(Lit(<<"l","e","i">>),
               Alt(Lit(<<"l","e","i"," ","c","o","m","p","l","e","m","e","n","t","a","r">>),
               Alt(Cat(<<Lit(<<"m","e","d","i","d","a"," ","p","r","o","v","i","s">>), Set({"o", "o_ACUTE"}),
                         Lit(<<"r","i","a">>)>>),
                   Lit(<<"d","e","c","r","e","t","o">>))))),
        Plus(WS),
        Opt(Cat(<<Set({"n"}), Opt(Set({"ORD_M", "o", "."})), Star(WS)>>)),
        Grp(3, Cat(<<D, Star(Set(Digits \cup {"."}))>>))>>)

FULL_CITATION ==
  Cat(<<ArticleHead, LabelAndNumber,
        Star(WS), Set({","}), Star(WS), Lit(<<"d","e">>), Plus(WS),
        Grp(4, Cat(<<D, Opt(D)>>)), Plus(WS), Lit(<<"d","e">>), Plus(WS),
        Grp(5, Plus(Set(WordChars))), Plus(WS), Lit(<<"d","e">>), Plus(WS),
        Grp(6, Cat(<<D, D, D, D>>))>>)

SHORT_CITATION ==
  Cat(<<ArticleHead, LabelAndNumber,
        Star(WS), Set({"/"}), Star(WS), Grp(4, Cat(<<D, D, D, D>>))>>)

ALIAS_CITATION == Cat(<<ArticleHead, Grp(2, Plus(Dot)), Eol>>)

\* ^(lei|lc|mp|decreto|constituicao)-(\d+)-(\d{4})\s*,?\s*art\.?\s*(\d+[ºªo°]?)
ID_CITATION ==
  Cat(<<Bol,
        Grp(1, Alt(Lit(<<"l","e","i">>), Alt(Lit(<<"l","c">>), Alt(Lit(<<"m","p">>),
               Alt(Lit(<<"d","e","c","r","e","t","o">>), Lit(<<"c","o","n","s","t","i","t","u","i","c","a","o">>)))))),
        Set({"-"}), Grp(2, Plus(D)), Set({"-"}), Grp(3, Cat(<<D, D, D, D>>)),
        Star(WS), Opt(Set({","})), Star(WS),
        Lit(<<"a","r","t">>), Opt(Set({"."})), Star(WS), Grp(4, OrdinalNumber)>>)

\* [§§]\s*(\d+[ºªo°]?)|par[aá]grafo\s+(?:[uú]nico|(\d+[ºªo°]?))
PARAGRAPH_RE ==
  Alt(Cat(<<Set({"SECT"}), Star(WS), Grp(1, OrdinalNumber)>>),
      Cat(<<Lit(<<"p","a","r">>), Set({"a", "a_ACUTE"}), Lit(<<"g","r","a","f","o">>), Plus(WS),
            Alt(Cat(<<Set({"u", "u_ACUTE"}), Lit(<<"n","i","c","o">>)>>),
                Grp(2, OrdinalNumber))>>))

\* [IVXLCDM] under the i flag
RomanDigits == {"i", "v", "x", "l", "c", "d", "m"}

\* inciso\s+([IVXLCDM]+)|,\s*([IVXLCDM]+)\s*(?:,|$)
INCISO_RE ==
  Alt(Cat(<<Lit(<<"i","n","c","i","s","o">>), Plus(WS), Grp(1, Plus(Set(RomanDigits)))>>),
      Cat(<<Set({","}), Star(WS), Grp(2, Plus(Set(RomanDigits))), Star(WS),
            Alt(Set({","}), Eol)>>))

\* al[ií]nea\s+([a-z])
ALINEA_RE ==
  Cat(<<Lit(<<"a","l">>), Set({"i", "i_ACUTE"}), Lit(<<"n","e","a">>), Plus(WS),
        Grp(1, Set(LowerLetters))>>)

\* A slip in the message: the normalized text in place of citation.trim().
ParseErrorOfNormalized(citation) ==
  <<"C","o","u","l","d"," ","n","o","t"," ","p","a","r","s","e"," ","B","r","a","z","i","l","i","a","n"," ","c","i","t","a","t","i","o","n",":"," ","\"">>
    \o removeAccents(trim(citation)) \o <<"\"">>

\* `Could not parse Brazilian citation: "${citation.trim()}"`
ParseError(citation) ==
  <<"C","o","u","l","d"," ","n","o","t"," ","p","a","r","s","e"," ","B","r","a","z","i","l","i","a","n"," ","c","i","t","a","t","i","o","n",":"," ","\"">>
    \o trim(citation) \o <<"\"">>

Unparsed(citation) ==
  [valid |-> FALSE, type |-> Some(<<"u","n","k","n","o","w","n">>), law_type |-> None,
   title |-> None, number |-> None, year |-> None, article |-> None,
   paragraph |-> None, inciso |-> None, alinea |-> None,
   error |-> Some(ParseError(citation))]

\* The pinpoint elements (paragraph, inciso, alinea) found in the whole
\* text.
extractPinpoints(trimmed) ==
  LET paragraphMatch == Exec(PARAGRAPH_RE, 2, trimmed)
      incisoMatch    == Exec(INCISO_RE, 2, trimmed)
      alineaMatch    == Exec(ALINEA_RE, 1, trimmed)
  IN [paragraph |->
        IF paragraphMatch.ok
        THEN (IF Group(paragraphMatch, trimmed, 1) # None
              THEN Some(stripOrdinal(Group(paragraphMatch, trimmed, 1)[1]))
              ELSE Some(<<"u","n","i","c","o">>))
        ELSE None,
      inciso |->
        IF incisoMatch.ok
        THEN (IF Group(incisoMatch, trimmed, 1) # None
              THEN Group(incisoMatch, trimmed, 1)
              ELSE Group(incisoMatch, trimmed, 2))
        ELSE None,
      alinea |->
        IF alineaMatch.ok THEN Group(alineaMatch, trimmed, 1) ELSE None]

\* The result of an ID-based citation.
FromId(match, trimmed, pins) ==
  LET lawType == toLowerCase(Group(match, trimmed, 1)[1])
  IN [valid |-> TRUE, type |-> Some(lawType), law_type |-> Some(lawType),
      title |-> None,
      number |-> Some(parseInt(Group(match, trimmed, 2)[1])),
      year |-> Some(parseInt(Group(match, trimmed, 3)[1])),
      article |-> Some(stripOrdinal(Group(match, trimmed, 4)[1])),
      paragraph |-> pins.paragraph, inciso |-> pins.inciso,
      alinea |-> pins.alinea, error |-> None]

\* The result of a full (the year is group 6) or short (group 4) citation.
FromLabel(match, yearGroup, trimmed, pins) ==
  LET label   == Group(match, trimmed, 2)[1]
      digits  == Group(match, trimmed, 3)[1]
      yyyy    == Group(match, trimmed, yearGroup)[1]
      lawType == TypeOfLabel(removeAccents(toLowerCase(label)))
  IN [valid |-> TRUE, type |-> Some(lawType), law_type |-> Some(lawType),
      title |-> Some(label \o <<" ">> \o digits \o <<"/">> \o yyyy),
      number |-> Some(parseInt(RemoveDots(digits))),
      year |-> Some(parseInt(yyyy)),
      article |-> Some(stripOrdinal(Group(match, trimmed, 1)[1])),
      paragraph |-> pins.paragraph, inciso |-> pins.inciso,
      alinea |-> pins.alinea, error |-> None]

\* match[2].trim().toLowerCase() of an alias citation.
AliasKey(match, trimmed) == toLowerCase(trim(Group(match, trimmed, 2)[1]))

\* The result of an alias citation whose key the table resolves to alias.
FromAlias(match, alias, trimmed, pins) ==
  [valid |-> TRUE, type |-> alias.type, law_type |-> alias.type,
   title |-> None, number |-> alias.number, year |-> alias.year,
   article |-> Some(stripOrdinal(Group(match, trimmed, 1)[1])),
   paragraph |-> pins.paragraph, inciso |-> pins.inciso,
   alinea |-> pins.alinea, error |-> None]

\* A slip in the order: the alias grammar tried before the specific ones.
parseCitationAliasFirst(aliasMap, citation) ==
  LET trimmed    == removeAccents(trim(citation))
      pins       == extractPinpoints(trimmed)
      idMatch    == Exec(ID_CITATION, 4, trimmed)
      fullMatch  == Exec(FULL_CITATION, 6, trimmed)
      shortMatch == Exec(SHORT_CITATION, 4, trimmed)
      aliasMatch == Exec(ALIAS_CITATION, 2, trimmed)
  IN IF aliasMatch.ok
        /\ Lookup(aliasMap, AliasKey(aliasMatch, trimmed)) # None
     THEN FromAlias(aliasMatch,
                    Lookup(aliasMap, AliasKey(aliasMatch, trimmed))[1],
                    trimmed, pins)
     ELSE IF idMatch.ok THEN FromId(idMatch, trimmed, pins)
     ELSE IF fullMatch.ok THEN FromLabel(fullMatch, 6, trimmed, pins)
     ELSE IF shortMatch.ok THEN FromLabel(shortMatch, 4, trimmed, pins)
     ELSE Unparsed(citation)

\* parseCitation, the alias table a parameter: the grammars in the order
\* ID-based, full, short, alias.
parseCitationWith(aliasMap, citation) ==
  LET trimmed    == removeAccents(trim(citation))
      pins       == extractPinpoints(trimmed)
      idMatch    == Exec(ID_CITATION, 4, trimmed)
      fullMatch  == Exec(FULL_CITATION, 6, trimmed)
      shortMatch == Exec(SHORT_CITATION, 4, trimmed)
      aliasMatch == Exec(ALIAS_CITATION, 2, trimmed)
  IN IF idMatch.ok THEN FromId(idMatch, trimmed, pins)
     ELSE IF fullMatch.ok THEN FromLabel(fullMatch, 6, trimmed, pins)
     ELSE IF shortMatch.ok THEN FromLabel(shortMatch, 4, trimmed, pins)
     ELSE IF aliasMatch.ok
             /\ Lookup(aliasMap, AliasKey(aliasMatch, trimmed)) # None
     THEN FromAlias(aliasMatch,
                    Lookup(aliasMap, AliasKey(aliasMatch, trimmed))[1],
                    trimmed, pins)
     ELSE Unparsed(citation)

parseCitation(citation) == parseCitationWith(ALIAS_MAP, citation)

(***************************************************************************)
(* The calls: how the texts handed to parseCitation are written.  A shape  *)
(* records the parts a text was written from; given holds the shape of the *)
(* current call and only the properties read it.                           *)
(***************************************************************************)
\* Bounds of the texts.
MaxPad == 1
MaxFreeLen == 3

\* {n}: an article number as written, and its digits.
Articles ==
  { [text |-> <<"1">>,   digits |-> <<"1">>],
    [text |-> <<"5","ORD_M">>,  digits |-> <<"5">>],
    [text |-> <<"1","2","o">>, digits |-> <<"1","2">>] }

\* {kind-label}: an instrument label as written, and its type code.
Labels ==
  { [text |-> <<"L","e","i">>,               type |-> <<"l","e","i">>],
    [text |-> <<"L","e","i"," ","C","o","m","p","l","e","m","e","n","t","a","r">>,  type |-> <<"l","c">>],
    [text |-> <<"M","e","d","i","d","a"," ","P","r","o","v","i","s","o_ACUTE","r","i","a">>, type |-> <<"m","p">>],
    [text |-> <<"m","e","d","i","d","a"," ","p","r","o","v","i","s","o","r","i","a">>, type |-> <<"m","p">>],
    [text |-> <<"D","E","C","R","E","T","O">>,           type |-> <<"d","e","c","r","e","t","o">>] }

\* {number}: an instrument number as written, and its value.
Numbers ==
  { [text |-> <<"1","3",".","7","0","9">>, value |-> 13709],
    [text |-> <<"1","3","7","0","9">>,  value |-> 13709],
    [text |-> <<"1","2","3">>,    value |-> 123] }

\* {kind}-{number}-{year}: the identifiers of the identifier-based grammar.
Identifiers ==
  { [text |-> <<"l","e","i","-","1","3","7","0","9","-","2","0","1","8">>,      type |-> <<"l","e","i">>,          number |-> 13709, year |-> 2018],
    [text |-> <<"l","c","-","1","2","3","-","2","0","0","6">>,         type |-> <<"l","c">>,           number |-> 123,   year |-> 2006],
    [text |-> <<"m","p","-","2","2","0","0","-","2","0","0","1">>,        type |-> <<"m","p">>,           number |-> 2200,  year |-> 2001],
    [text |-> <<"d","e","c","r","e","t","o","-","8","7","7","1","-","2","0","1","6">>,   type |-> <<"d","e","c","r","e","t","o">>,      number |-> 8771,  year |-> 2016],
    [text |-> <<"L","E","I","-","8","0","7","8","-","1","9","9","0">>,       type |-> <<"l","e","i">>,          number |-> 8078,  year |-> 1990],
    [text |-> <<"c","o","n","s","t","i","t","u","i","c","a","o","-","0","-","1","9","8","8">>, type |-> <<"c","o","n","s","t","i","t","u","i","c","a","o">>, number |-> 0,     year |-> 1988] }

\* {alias}: a short name as written, and the key it is looked up by.
KnownAliases ==
  { [text |-> <<"L","G","P","D">>,                           key |-> <<"l","g","p","d">>],
    [text |-> <<"l","g","p","d">>,                           key |-> <<"l","g","p","d">>],
    [text |-> <<"M","a","r","c","o"," ","C","i","v","i","l">>,                    key |-> <<"m","a","r","c","o"," ","c","i","v","i","l">>],
    [text |-> <<"M","a","r","c","o"," ","C","i","v","i","l"," ","d","a"," ","I","n","t","e","r","n","e","t">>,        key |-> <<"m","a","r","c","o"," ","c","i","v","i","l"," ","d","a"," ","i","n","t","e","r","n","e","t">>],
    [text |-> <<"C","D","C">>,                            key |-> <<"c","d","c">>],
    [text |-> <<"C","o_ACUTE","d","i","g","o"," ","d","e"," ","D","e","f","e","s","a"," ","d","o"," ","C","o","n","s","u","m","i","d","o","r">>, key |-> <<"c","o","d","i","g","o"," ","d","e"," ","d","e","f","e","s","a"," ","d","o"," ","c","o","n","s","u","m","i","d","o","r">>],
    [text |-> <<"C","o_ACUTE","d","i","g","o"," ","C","i","v","i","l">>,                   key |-> <<"c","o","d","i","g","o"," ","c","i","v","i","l">>],
    [text |-> <<"C","a","r","o","l","i","n","a"," ","D","i","e","c","k","m","a","n","n">>,             key |-> <<"c","a","r","o","l","i","n","a"," ","d","i","e","c","k","m","a","n","n">>],
    [text |-> <<"C","o","n","s","t","i","t","u","i","c_CEDILLA","a_TILDE","o">>,                   key |-> <<"c","o","n","s","t","i","t","u","i","c","a","o">>],
    [text |-> <<"C","F">>,                             key |-> <<"c","f">>],
    [text |-> <<"C","F","/","8","8">>,                          key |-> <<"c","f","/","8","8">>] }

\* Short names that are no key of the alias table.
UnknownAliases ==
  { [text |-> <<"X","Y","Z">>,             key |-> <<"x","y","z">>],
    [text |-> <<"L","e","i"," ","G","e","r","a","l">>,       key |-> <<"l","e","i"," ","g","e","r","a","l">>],
    [text |-> <<"C","o","n","s","t","r","u","c","t","o","r">>,     key |-> <<"c","o","n","s","t","r","u","c","t","o","r">>],
    [text |-> <<"_","_","p","r","o","t","o","_","_">>,       key |-> <<"_","_","p","r","o","t","o","_","_">>],
    [text |-> <<"L","G","T">>, key |-> <<"l","g","t">>],
    [text |-> <<"L","e","i"," ","C","a","r","o","l","i","n","a"," ","D","i","e","c","k","m","a","n","n">>, key |-> <<"l","e","i"," ","c","a","r","o","l","i","n","a"," ","d","i","e","c","k","m","a","n","n">>],
    [text |-> <<"C","o","n","s","t","i","t","u","i","c","a","o"," ","F","e","d","e","r","a","l">>, key |-> <<"c","o","n","s","t","i","t","u","i","c","a","o"," ","f","e","d","e","r","a","l">>] }

\* The month words of a full citation: the twelve names, one of them
\* accented, and words that are no month.
MonthWords ==
  MONTHS \cup { <<"m","a","r","c_CEDILLA","o">>, <<"f","o","o">>, <<"a","g","o","s","t">> }

\* Sub-references: the text added, the field it names and the value meant.
NoPinpoint == [text |-> <<>>, field |-> "none", value |-> <<>>]

Pinpoints ==
  { [text |-> <<","," ","SECT"," ","2","ORD_M">>,             field |-> "paragraph", value |-> <<"2">>],
    [text |-> <<","," ","p","a","r","a_ACUTE","g","r","a","f","o"," ","3","ORD_M">>,     field |-> "paragraph", value |-> <<"3">>],
    [text |-> <<","," ","p","a","r","a","g","r","a","f","o"," ","4">>,      field |-> "paragraph", value |-> <<"4">>],
    [text |-> <<","," ","p","a","r","a_ACUTE","g","r","a","f","o"," ","u_ACUTE","n","i","c","o">>,  field |-> "paragraph", value |-> <<"u","n","i","c","o">>],
    [text |-> <<","," ","i","n","c","i","s","o"," ","I","I">>,        field |-> "inciso",    value |-> <<"I","I">>],
    [text |-> <<","," ","I","V">>,               field |-> "inciso",    value |-> <<"I","V">>],
    [text |-> <<","," ","a","l","i_ACUTE","n","e","a"," ","b">>,         field |-> "alinea",    value |-> <<"b">>] }

\* Texts of no grammar.
Garbage ==
  { <<"n","o","t"," ","a"," ","c","i","t","a","t","i","o","n"," ","a","t"," ","a","l","l">>, <<>>, <<"A","r","t",".">>, <<"A","r","t","."," ","1","ORD_M">>, <<"A","r","t","."," ","1","2">>,
    <<"l","e","i","-","1","3","7","0","9","-","2","0","1","8">>, <<"L","e","i"," ","1","3",".","7","0","9","/","2","0","1","8">>, <<"A","r","t","i","g","o"," ","5",","," ","L","G","P","D">>,
    <<"S","a_TILDE","o"," ","P","a","u","l","o">> }

\* The characters of the free texts.
FreeChars == {" ", "COMB_ACUTE", "a", "a_ACUTE"}

FreeTexts == UNION {[1..n -> FreeChars] : n \in 0..MaxFreeLen}

Pad(n) == [i \in 1..n |-> " "]

Shape(grammar, wellFormed, type, number, year, article, pin, month, key, body) ==
  [grammar |-> grammar, wellFormed |-> wellFormed, type |-> type,
   number |-> number, year |-> year, article |-> article, pin |-> pin,
   month |-> month, key |-> key, inner |-> FALSE, body |-> body]

\* "{kind}-{number}-{year}, art. {n}"
IdShapes(ids, articles, pins) ==
  { Shape("id", TRUE, id.type, id.number, id.year, a.digits, p,
          <<>>, <<>>, id.text \o <<","," ","a","r","t","."," ">> \o a.text \o p.text)
      : id \in ids, a \in articles, p \in pins }

\* "Art. {n}, {kind-label} nº {number}, de {day} de {month} de {year}"
FullShapes(labels, numbers, articles, pins, months) ==
  { Shape("full", m \in MONTHS \cup {<<"m","a","r","c_CEDILLA","o">>},
          l.type, n.value, 2018, a.digits, p, m, <<>>,
          <<"A","r","t","."," ">> \o a.text \o <<","," ">> \o l.text \o <<" ","n","ORD_M"," ">> \o n.text
            \o <<","," ","d","e"," ","1","4"," ","d","e"," ">> \o m \o <<" ","d","e"," ","2","0","1","8">> \o p.text)
      : l \in labels, n \in numbers, a \in articles, p \in pins,
        m \in months }

\* "Art. {n}, {kind-label} {number}/{year}"
ShortShapes(labels, numbers, articles, pins) ==
  { Shape("short", TRUE, l.type, n.value, 2018, a.digits, p,
          <<>>, <<>>,
          <<"A","r","t","."," ">> \o a.text \o <<","," ">> \o l.text \o <<" ">> \o n.text
            \o <<"/","2","0","1","8">> \o p.text)
      : l \in labels, n \in numbers, a \in articles, p \in pins }

\* "Art. {n}, {alias text}"
AliasShapes(aliases, articles, pins) ==
  { Shape("alias", al \in KnownAliases, <<>>, 0, 0,
          a.digits, p, <<>>, al.key,
          <<"A","r","t","."," ">> \o a.text \o <<","," ">> \o al.text \o p.text)
      : al \in aliases, a \in articles, p \in pins }

\* "Art. {n}{pinpoint}, {the rest}": the sub-reference right after the article.
InnerShapes ==
  LET a == CHOOSE x \in Articles : x.text = <<"5","ORD_M">>
  IN { [Shape("short", TRUE, <<"l","e","i">>, 13709, 2018, a.digits, p,
                   <<>>, <<>>,
                   <<"A","r","t","."," ">> \o a.text \o p.text
                     \o <<","," ","L","e","i"," ","1","3",".","7","0","9","/","2","0","1","8">>)
            EXCEPT !.inner = TRUE]
         : p \in Pinpoints }
     \cup
     { [Shape("alias", TRUE, <<>>, 0, 0, a.digits, p, <<>>, <<"l","g","p","d">>,
                   <<"A","r","t","."," ">> \o a.text \o p.text
                     \o <<","," ","L","G","P","D">>)
            EXCEPT !.inner = TRUE]
         : p \in Pinpoints }

OtherShapes(texts) ==
  { Shape("none", FALSE, <<>>, 0, 0, <<>>, NoPinpoint, <<>>, <<>>, x)
      : x \in texts }

OneArticle == {CHOOSE x \in Articles : x.text = <<"1">>}
OneLabel   == {CHOOSE x \in Labels : x.text = <<"L","e","i">>}
OneNumber  == {CHOOSE x \in Numbers : x.text = <<"1","3",".","7","0","9">>}
OneId      == {CHOOSE x \in Identifiers : x.number = 13709}
SomeAliases ==
  {x \in KnownAliases : x.key \in {<<"l","g","p","d">>, <<"c","f","/","8","8">>,
                                    <<"c","o","d","i","g","o"," ","c","i","v","i","l">>}}

\* The texts of the calls: every literal of each grammar; one literal of each
\* grammar with every sub-reference after it; a full citation with every
\* month word; unknown aliases; texts of no grammar.
Shapes ==
  IdShapes(Identifiers, Articles, {NoPinpoint})
    \cup IdShapes(OneId, OneArticle, Pinpoints)
    \cup FullShapes(Labels, Numbers, Articles, {NoPinpoint}, {<<"a","g","o","s","t","o">>})
    \cup FullShapes(OneLabel, OneNumber, OneArticle, {NoPinpoint}, MonthWords)
    \cup FullShapes(OneLabel, OneNumber, OneArticle, Pinpoints, {<<"a","g","o","s","t","o">>})
    \cup ShortShapes(Labels, Numbers, Articles, {NoPinpoint})
    \cup ShortShapes(OneLabel, OneNumber, OneArticle, Pinpoints)
    \cup AliasShapes(KnownAliases \cup UnknownAliases, Articles, {NoPinpoint})
    \cup AliasShapes(SomeAliases, OneArticle, Pinpoints)
    \cup InnerShapes
    \cup OtherShapes(Garbage \cup FreeTexts)

(***************************************************************************)
(* The state machine: a caller hands a text to parseCitation, the parser   *)
(* answers, the caller takes the answer.  The engine keeps nothing from    *)
(* one call to the next.                                                   *)
(***************************************************************************)
\* The ingestion client before any call: the clock of the process, the
\* callers of fetchWithRateLimit, none of them in a call.
StartTime == 1000
MaxCalls  == 2
Callers   == 1..MaxCalls

IdleCall ==
  [pc |-> "idle", asked |-> <<>>, maxRetries |-> 0, attempt |-> 0,
   wake |-> 0, statuses |-> <<>>, result |-> <<>>]

\* No call of the formatter, the resolver or the validator is under way.
OthersIdle ==
  /\ format = "full" /\ formatted = <<>>
  /\ db = {}
  /\ inputId = <<>> /\ candidates = <<>> /\ resolved = <<>>
  /\ validation = <<>> /\ queries = <<>>
  /\ request = <<>> /\ response = <<>>
  /\ context = FALSE /\ tool = <<>> /\ reply = <<>>
  /\ now = StartTime /\ lastRequestTime = 0
  /\ calls = [c \in Callers |-> IdleCall]
  /\ issued = <<>>

Init ==
  /\ pc = "idle"
  /\ arg = <<>>
  /\ given = CHOOSE sh \in OtherShapes({<<>>}) : TRUE
  /\ parsed = None
  /\ OthersIdle

\* A call parseCitation(citation), the text padded with white space (MaxPad
\* characters at most).
Call ==
  /\ pc = "idle"
  /\ \E sh \in Shapes, lead \in 0..MaxPad, trail \in 0..MaxPad :
       /\ lead + trail <= MaxPad
       /\ arg' = Pad(lead) \o sh.body \o Pad(trail)
       /\ given' = sh
  /\ pc' = "called"
  /\ UNCHANGED <<provisionVars, toolVars, fetcherVars,
                 parsed, formatterVars, db, statuteVars, validatorVars>>

\* The body of parseCitation.
Parse ==
  /\ pc = "called"
  /\ parsed' = parseCitation(arg)
  /\ pc' = "done"
  /\ UNCHANGED <<provisionVars, toolVars, fetcherVars,
                 arg, given, formatterVars, db, statuteVars, validatorVars>>

\* The caller takes the result.
Return ==
  /\ pc = "done"
  /\ pc' = "idle"
  /\ arg' = <<>>
  /\ given' = CHOOSE sh \in OtherShapes({<<>>}) : TRUE
  /\ parsed' = None
  /\ UNCHANGED <<provisionVars, toolVars, fetcherVars,
                 formatterVars, db, statuteVars, validatorVars>>

Next == Call \/ Parse \/ Return

Spec == Init /\ [][Next]_vars

(***************************************************************************)
(* Properties of the parser                                                *)
(***************************************************************************)
\* parseCitation has answered the call.
Done == pc = "done"

\* The text the grammars are tried on.
Trimmed == normalize(arg)

IdMatches    == Exec(ID_CITATION, 4, Trimmed).ok
FullMatches  == Exec(FULL_CITATION, 6, Trimmed).ok
ShortMatches == Exec(SHORT_CITATION, 4, Trimmed).ok
AliasMatches == Exec(ALIAS_CITATION, 2, Trimmed).ok

\* The keys of the alias table.
AliasKeys == {e[1] : e \in ALIAS_MAP}

\* The key the alias grammar reads in the text.
ArgAliasKey == AliasKey(Exec(ALIAS_CITATION, 2, Trimmed), Trimmed)

\* The entry of the alias table under key.
TableEntry(key) == (CHOOSE e \in ALIAS_MAP : e[1] = key)[2]

TypeCodes ==
  { <<"l","e","i">>, <<"l","c">>, <<"m","p">>, <<"d","e","c","r","e","t","o">>, <<"c","o","n","s","t","i","t","u","i","c","a","o">> }

\* The result of unparseable input: valid=false, type 'unknown', an error
\* and no other field.
IsFailure(r) ==
  /\ r.valid = FALSE
  /\ r.type = Some(<<"u","n","k","n","o","w","n">>)
  /\ r.error # None /\ r.error[1] # <<>>
  /\ r.article = None /\ r.number = None /\ r.year = None
  /\ r.title = None
  /\ r.paragraph = None /\ r.inciso = None /\ r.alinea = None

\* The type/number/year/article the text of the call was written for.
Meant ==
  IF given.grammar = "alias"
  THEN [type    |-> TableEntry(given.key).type,
        number  |-> TableEntry(given.key).number,
        year    |-> TableEntry(given.key).year,
        article |-> Some(given.article)]
  ELSE [type    |-> Some(given.type),
        number  |-> Some(given.number),
        year    |-> Some(given.year),
        article |-> Some(given.article)]

ParsedAsMeant ==
  /\ parsed.valid
  /\ parsed.type = Meant.type
  /\ parsed.number = Meant.number
  /\ parsed.year = Meant.year
  /\ parsed.article = Meant.article

\* C1: parseCitation always returns a value; when no grammar matches, or the
\* alias is unknown, the result is valid=false, type 'unknown', with a
\* non-empty error and no article, number, year, title or pinpoint; and an
\* error is present only when valid=false.
C1_TotalAndFailureShape ==
  Done =>
    /\ parsed.valid \in BOOLEAN
    /\ ( /\ ~IdMatches /\ ~FullMatches /\ ~ShortMatches
         /\ (AliasMatches => ArgAliasKey \notin AliasKeys) )
         => IsFailure(parsed)
    /\ parsed.error # None => ~parsed.valid

\* C2: valid=true implies the type is one of lei, lc, mp, decreto,
\* constituicao, and the article is present, non-empty and digits only.
C2_ValidHasTypeAndArticle ==
  (Done /\ parsed.valid) =>
    /\ parsed.type # None /\ parsed.type[1] \in TypeCodes
    /\ parsed.article # None /\ parsed.article[1] # <<>>
    /\ \A i \in 1..Len(parsed.article[1]) : parsed.article[1][i] \in Digits

\* C3: a well-formed literal of any of the four grammars parses to valid=true
\* with the type, number, year and article it was written for (labels mapped
\* to lei, lc, mp, decreto; thousands dots removed; an alias giving the alias
\* table's triple, whatever its letter case and accents).
C3_LiteralsParseAsMeant ==
  (Done /\ given.wellFormed /\ given.pin = NoPinpoint) => ParsedAsMeant

C3_Witness ==
  /\ Done /\ given.wellFormed /\ given.pin = NoPinpoint
  /\ given.grammar = "full" /\ given.type = <<"m","p">>
  /\ \E i \in 1..Len(arg) : arg[i] = "o_ACUTE"
  /\ \E i \in 1..Len(arg) : arg[i] = "."
  /\ parsed.type = Some(<<"m","p">>) /\ parsed.number = Some(13709)

\* Alias tables other than the program's: the empty one, and one whose only
\* key is the key the alias grammar reads in the text of the call.
OtherAliasTables ==
  { {} } \cup
  (IF AliasMatches
   THEN { {<<ArgAliasKey, AliasEntry(<<"d","e","c","r","e","t","o">>, 1, 1900)>>} }
   ELSE {})

\* C4: the grammars are tried in the order identifier-based, full, short,
\* alias and the first that matches gives the result; a text that matches
\* one of the first three gives the same result whatever the alias table
\* holds.
C4_SpecificGrammarsFirst ==
  Done =>
    LET trimmed == normalize(arg)
        pins    == extractPinpoints(trimmed)
        id      == Exec(ID_CITATION, 4, trimmed)
        full    == Exec(FULL_CITATION, 6, trimmed)
        short   == Exec(SHORT_CITATION, 4, trimmed)
    IN /\ id.ok => parsed = FromId(id, trimmed, pins)
       /\ (~id.ok /\ full.ok) => parsed = FromLabel(full, 6, trimmed, pins)
       /\ (~id.ok /\ ~full.ok /\ short.ok) =>
            parsed = FromLabel(short, 4, trimmed, pins)
       /\ (id.ok \/ full.ok \/ short.ok) =>
            \A table \in OtherAliasTables :
              parseCitationWith(table, arg) = parsed

C4_Witness ==
  /\ Done /\ ShortMatches /\ AliasMatches
  /\ \E table \in OtherAliasTables : Lookup(table, ArgAliasKey) # None
  /\ parsed.valid /\ parsed.title # None

\* C5: the full grammar matches only when the month word is one of the
\* twelve names of the month table.
C5_FullNeedsKnownMonth ==
  (Done /\ FullMatches) =>
    toLowerCase(Group(Exec(FULL_CITATION, 6, Trimmed), Trimmed, 5)[1])
      \in MONTHS

\* C6: a text that matches only the alias grammar and whose key is no key of
\* the alias table gives the result of unparseable input.
C6_UnknownAliasFails ==
  ( /\ Done /\ ~IdMatches /\ ~FullMatches /\ ~ShortMatches
    /\ AliasMatches /\ ArgAliasKey \notin AliasKeys )
    => IsFailure(parsed)

\* C7: a paragraph mark or the word 'paragrafo' followed by a number gives
\* that number, ordinal marker stripped, as the paragraph; 'paragrafo unico'
\* gives 'unico', and nothing else does.
C7_ParagraphIsTheNumberWritten ==
  (Done /\ parsed.valid) =>
    /\ given.pin.field = "paragraph" =>
         parsed.paragraph = Some(given.pin.value)
    /\ parsed.paragraph = Some(<<"u","n","i","c","o">>) => given.pin.value = <<"u","n","i","c","o">>

\* C8: a sub-reference added to a well-formed citation of any grammar never
\* gates the match: it still parses to valid=true with the type, number, year
\* and article of the citation without it.
C8_PinpointNeverGates ==
  (Done /\ given.wellFormed /\ given.pin # NoPinpoint) => ParsedAsMeant

\* x is a contiguous part of y.
Infix(x, y) ==
  \E i \in 0..(Len(y) - Len(x)) : SubSeq(y, i + 1, i + Len(x)) = x

\* C9 as stated: on failure the error message contains the text exactly as
\* the caller supplied it, untrimmed and not accent-stripped.
C9_ErrorKeepsTextAsSupplied ==
  (Done /\ ~parsed.valid) => Infix(arg, parsed.error[1])

\* C9 amended: on failure the error message ends with the text of the call,
\* its leading and trailing white space removed and its accents kept, between
\* double quotes.
C9_ErrorKeepsTrimmedText ==
  (Done /\ ~parsed.valid) =>
    LET msg  == parsed.error[1]
        text == trim(arg)
    IN /\ Len(msg) >= Len(text) + 2
       /\ msg[Len(msg)] = "\""
       /\ SubSeq(msg, Len(msg) - Len(text), Len(msg) - 1) = text
       /\ msg[Len(msg) - Len(text) - 1] = "\""

C9_Witness ==
  /\ Done /\ ~parsed.valid
  /\ arg # trim(arg)
  /\ trim(arg) # removeAccents(trim(arg))
  /\ Infix(trim(arg), parsed.error[1])
  /\ ~Infix(arg, parsed.error[1])

\* C10: the normalizer of the parser is idempotent.
C10_NormalizeIdempotent ==
  Done => normalize(normalize(arg)) = normalize(arg)

(***************************************************************************)
\* C29: a citation with no sub-reference parses with no paragraph, no inciso
\* and no alinea; so does 'Art. N, {alias}' for every key of the alias table.
C29_NoPinpointNoFields ==
  (Done /\ parsed.valid /\ given.pin = NoPinpoint /\ ~given.inner) =>
    /\ parsed.paragraph = None
    /\ parsed.inciso = None
    /\ parsed.alinea = None

(* The formatter                                                           *)
(***************************************************************************)
\* Type label map (internal code -> display label): the own properties.
TYPE_LABEL ==
  { <<<<"l","e","i">>, <<"L","e","i">>>>,
    <<<<"l","c">>, <<"L","e","i"," ","C","o","m","p","l","e","m","e","n","t","a","r">>>>,
    <<<<"m","p">>, <<"M","e","d","i","d","a"," ","P","r","o","v","i","s","o","r","i","a">>>>,
    <<<<"d","e","c","r","e","t","o">>, <<"D","e","c","r","e","t","o">>>>,
    <<<<"c","o","n","s","t","i","t","u","i","c","a","o">>, <<"C","o","n","s","t","i","t","u","i","c","a","o"," ","F","e","d","e","r","a","l">>>> }

\* `${v}` of the members TYPE_LABEL inherits from Object.prototype.
InheritedLabel ==
  { <<<<"c","o","n","s","t","r","u","c","t","o","r">>, <<"f","u","n","c","t","i","o","n"," ","O","b","j","e","c","t","(",")"," ","{"," ","[","n","a","t","i","v","e"," ","c","o","d","e","]"," ","}">>>>,
    <<<<"_","_","p","r","o","t","o","_","_">>, <<"[","o","b","j","e","c","t"," ","O","b","j","e","c","t","]">>>> }

\* TYPE_LABEL[key] ?? 'Lei' as the template literal prints it; key is
\* undefined when the citation has neither law_type nor type.
TypeLabel(key) ==
  LET mine  == {e \in TYPE_LABEL : Some(e[1]) = key}
      proto == {e \in InheritedLabel : Some(e[1]) = key}
  IN IF mine # {} THEN (CHOOSE e \in mine : TRUE)[2]
     ELSE IF proto # {} THEN (CHOOSE e \in proto : TRUE)[2]
     ELSE <<"L","e","i">>

DigitChar(d) == CHOOSE c \in Digits : DigitVal(c) = d

\* `${n}` of a non-negative integer.
RECURSIVE Decimal(_)
Decimal(n) ==
  IF n < 10 THEN <<DigitChar(n)>>
  ELSE Decimal(n \div 10) \o <<DigitChar(n % 10)>>

\* The digits ds in groups of three from the right, a dot between groups.
RECURSIVE GroupThousands(_)
GroupThousands(ds) ==
  IF Len(ds) <= 3 THEN ds
  ELSE GroupThousands(SubSeq(ds, 1, Len(ds) - 3)) \o <<".">>
         \o SubSeq(ds, Len(ds) - 2, Len(ds))

\* A slip in the grouping: the digits as they are.
formatLawNumberPlain(n) == Decimal(n)

\* n.toLocaleString('pt-BR')
formatLawNumber(n) == GroupThousands(Decimal(n))

\* `${n}º`
ordinal(n) == n \o <<"ORD_M">>

\* A slip in the order: the alinea before the inciso.
buildPinpointAlineaFirst(cit) ==
  ordinal(IF cit.article = None THEN <<>> ELSE cit.article[1])
    \o (IF cit.paragraph # None /\ cit.paragraph[1] # <<>>
        THEN (IF cit.paragraph[1] = <<"u","n","i","c","o">>
              THEN <<","," ","p","a","r","a","g","r","a","f","o"," ","u","n","i","c","o">>
              ELSE <<","," ","SECT"," ">> \o ordinal(cit.paragraph[1]))
        ELSE <<>>)
    \o (IF cit.alinea # None /\ cit.alinea[1] # <<>>
        THEN <<","," ","a","l","i","n","e","a"," ">> \o cit.alinea[1] ELSE <<>>)
    \o (IF cit.inciso # None /\ cit.inciso[1] # <<>>
        THEN <<","," ">> \o cit.inciso[1] ELSE <<>>)

buildPinpoint(cit) ==
  ordinal(IF cit.article = None THEN <<>> ELSE cit.article[1])
    \o (IF cit.paragraph # None /\ cit.paragraph[1] # <<>>
        THEN (IF cit.paragraph[1] = <<"u","n","i","c","o">>
              THEN <<","," ","p","a","r","a","g","r","a","f","o"," ","u","n","i","c","o">>
              ELSE <<","," ","SECT"," ">> \o ordinal(cit.paragraph[1]))
        ELSE <<>>)
    \o (IF cit.inciso # None /\ cit.inciso[1] # <<>>
        THEN <<","," ">> \o cit.inciso[1] ELSE <<>>)
    \o (IF cit.alinea # None /\ cit.alinea[1] # <<>>
        THEN <<","," ","a","l","i","n","e","a"," ">> \o cit.alinea[1] ELSE <<>>)

\* parsed.number ? formatLawNumber(parsed.number) : ''
NumStr(cit) ==
  IF cit.number # None /\ cit.number[1] # 0
  THEN formatLawNumber(cit.number[1]) ELSE <<>>

\* `${v ?? dflt}` of an optional number.
NumberOr(v, dflt) == IF v = None THEN dflt ELSE Decimal(v[1])

\* The styles of a call: the three of CitationFormat, and any other value.
Formats == {"full", "short", "pinpoint", "other"}

\* The display string of a usable citation in the style fmt.
Styled(cit, fmt) ==
  LET pinpoint  == buildPinpoint(cit)
      typeLabel == TypeLabel(IF cit.law_type # None THEN cit.law_type
                             ELSE cit.type)
  IN CASE fmt = "full" ->
            IF cit.type = Some(<<"c","o","n","s","t","i","t","u","i","c","a","o">>)
            THEN <<"A","r","t","."," ">> \o pinpoint \o <<","," ","C","o","n","s","t","i","t","u","i","c","a","o"," ","F","e","d","e","r","a","l"," ","d","e"," ">>
                   \o NumberOr(cit.year, <<"1","9","8","8">>)
            ELSE trim(<<"A","r","t","."," ">> \o pinpoint \o <<","," ">> \o typeLabel
                        \o <<" ","n","ORD_M"," ">> \o NumStr(cit) \o <<"/">>
                        \o NumberOr(cit.year, <<>>))
       [] fmt = "short" ->
            IF cit.type = Some(<<"c","o","n","s","t","i","t","u","i","c","a","o">>)
            THEN <<"A","r","t","."," ">> \o pinpoint \o <<","," ","C","F","/","8","8">>
            ELSE trim(<<"A","r","t","."," ">> \o pinpoint \o <<","," ">> \o typeLabel
                        \o <<" ">> \o NumStr(cit) \o <<"/">>
                        \o NumberOr(cit.year, <<>>))
       [] fmt = "pinpoint" -> <<"A","r","t","."," ">> \o pinpoint
       [] OTHER ->
            trim(<<"A","r","t","."," ">> \o pinpoint \o <<","," ">> \o typeLabel \o <<" ">>
                   \o NumberOr(cit.number, <<>>) \o <<"/">>
                   \o NumberOr(cit.year, <<>>))

\* A slip in the guard: a citation without an article is formatted too.
formatCitationUnguarded(cit, fmt) ==
  IF ~cit.valid THEN <<>> ELSE Styled(cit, fmt)

formatCitation(cit, fmt) ==
  IF ~cit.valid \/ cit.article = None \/ cit.article[1] = <<>> THEN <<>>
  ELSE Styled(cit, fmt)

(***************************************************************************)
(* The calls of the formatter: the citation handed over is held by parsed, *)
(* the style by format, the answer by formatted.                           *)
(***************************************************************************)
Citation(valid, type, lawType, number, year, article, paragraph, inciso, alinea) ==
  [valid |-> valid, type |-> type, law_type |-> lawType, title |-> None,
   number |-> number, year |-> year, article |-> article,
   paragraph |-> paragraph, inciso |-> inciso, alinea |-> alinea,
   error |-> None]

FormatNumbers == {5, 123, 8078, 13709, 1234567}
FormatYears == {1988, 2018}
FormatArticles == {<<"1">>, <<"1","2">>}

\* Valid citations of every instrument type, no pinpoint field.
PlainCitations ==
  { Citation(TRUE, Some(t), Some(t), Some(n), Some(y), Some(a), None, None, None)
      : t \in TypeCodes \ {<<"c","o","n","s","t","i","t","u","i","c","a","o">>}, n \in FormatNumbers,
        y \in FormatYears, a \in FormatArticles }
  \cup
  { Citation(TRUE, Some(<<"c","o","n","s","t","i","t","u","i","c","a","o">>), Some(<<"c","o","n","s","t","i","t","u","i","c","a","o">>), Some(0),
             Some(1988), Some(a), None, None, None)
      : a \in FormatArticles }

\* Valid citations with every combination of pinpoint fields.
PinpointCitations ==
  { Citation(TRUE, Some(b[1]), Some(b[1]), Some(b[2]), Some(b[3]), Some(<<"5">>),
             par, inc, ali)
      : b \in {<<<<"l","e","i">>, 13709, 2018>>, <<<<"c","o","n","s","t","i","t","u","i","c","a","o">>, 0, 1988>>},
        par \in {None, Some(<<>>), Some(<<"u","n","i","c","o">>), Some(<<"2">>)},
        inc \in {None, Some(<<"I","I">>)},
        ali \in {None, Some(<<"b">>)} }

\* Citations with fields missing, as the type ParsedCitation allows.
PartialCitations ==
  { Citation(v, t, lt, n, y, a, None, None, None)
      : v \in BOOLEAN,
        t \in {Some(<<"l","e","i">>), Some(<<"u","n","k","n","o","w","n">>), None},
        lt \in {None, Some(<<"l","c">>), Some(<<"c","o","n","s","t","r","u","c","t","o","r">>)},
        n \in {None, Some(0), Some(13709)},
        y \in {None, Some(2018)},
        a \in {None, Some(<<>>), Some(<<"5">>)} }

Citations == PlainCitations \cup PinpointCitations \cup PartialCitations

\* A call formatCitation(parsed, format).
FormatCall ==
  /\ pc = "idle"
  /\ \E cit \in Citations, fmt \in Formats :
       /\ parsed' = cit
       /\ format' = fmt
  /\ pc' = "formatting"
  /\ UNCHANGED <<provisionVars, toolVars, fetcherVars,
                 arg, given, formatted, db, statuteVars, validatorVars>>

\* The body of formatCitation.
Format ==
  /\ pc = "formatting"
  /\ formatted' = formatCitation(parsed, format)
  /\ pc' = "formatted"
  /\ UNCHANGED <<provisionVars, toolVars, fetcherVars,
                 arg, given, parsed, format, db, statuteVars, validatorVars>>

\* The caller takes the display string.
FormatReturn ==
  /\ pc = "formatted"
  /\ pc' = "idle"
  /\ parsed' = None
  /\ format' = "full"
  /\ formatted' = <<>>
  /\ UNCHANGED <<provisionVars, toolVars, fetcherVars,
                 arg, given, db, statuteVars, validatorVars>>

FormatNext == FormatCall \/ Format \/ FormatReturn

FormatSpec == Init /\ [][FormatNext]_vars

(***************************************************************************)
(* Properties of the formatter                                             *)
(***************************************************************************)
Formatted == pc = "formatted"

\* The citation can be displayed: valid, with a non-empty article.
Usable(cit) ==
  cit.valid /\ cit.article # None /\ cit.article[1] # <<>>

\* A valid citation as the data model describes it: one of the five
\* instrument types, the article in digits, the year present, and for every
\* type but the Constitution a positive number.
WellFormedCitation(cit) ==
  /\ Usable(cit)
  /\ \A i \in 1..Len(cit.article[1]) : cit.article[1][i] \in Digits
  /\ cit.type # None /\ cit.type[1] \in TypeCodes
  /\ cit.law_type \in {None, cit.type}
  /\ cit.year # None /\ Len(Decimal(cit.year[1])) = 4
  /\ cit.type[1] # <<"c","o","n","s","t","i","t","u","i","c","a","o">> => (cit.number # None /\ cit.number[1] > 0)

NoPinpointFields(cit) ==
  cit.paragraph = None /\ cit.inciso = None /\ cit.alinea = None

\* x is the beginning of y.
Prefix(x, y) == Len(x) <= Len(y) /\ SubSeq(y, 1, Len(x)) = x

\* C11: for a valid citation c without pinpoint fields, of any instrument
\* type, the full display string parses back as valid, and the pinpoint
\* display of what it parses to is the pinpoint display of c.
C11_FullRoundTrip ==
  ( /\ Formatted /\ format = "full"
    /\ WellFormedCitation(parsed) /\ NoPinpointFields(parsed) )
    => /\ parseCitation(formatted).valid
       /\ formatCitation(parseCitation(formatted), "pinpoint")
            = formatCitation(parsed, "pinpoint")

\* C12: formatCitation answers every call, whatever the style; the answer is
\* the empty string exactly when the citation is not valid or its article is
\* absent or empty, and otherwise begins with 'Art. '.
C12_EmptyExactlyWhenUnusable ==
  Formatted =>
    /\ (formatted = <<>>) <=> ~Usable(parsed)
    /\ Usable(parsed) => Prefix(<<"A","r","t","."," ">>, formatted)

C12_Witness ==
  /\ Formatted /\ format = "short"
  /\ parsed.valid /\ parsed.article = Some(<<>>)
  /\ formatted = <<>>

\* s is the decimal writing of n in groups of three digits from the right,
\* a dot between two groups.
DotGrouped(s, n) ==
  /\ RemoveDots(s) = Decimal(n)
  /\ \A i \in 1..Len(s) : (s[i] = ".") <=> ((Len(s) - i + 1) % 4 = 0)
  /\ s # <<>> /\ s[1] # "."

PresentElements(cit) ==
  <<ordinal(cit.article[1])>>
    \o (IF cit.paragraph = None \/ cit.paragraph[1] = <<>> THEN <<>>
        ELSE IF cit.paragraph[1] = <<"u","n","i","c","o">> THEN <<<<"p","a","r","a","g","r","a","f","o"," ","u","n","i","c","o">>>>
        ELSE <<<<"SECT"," ">> \o cit.paragraph[1] \o <<"ORD_M">>>>)
    \o (IF cit.inciso = None \/ cit.inciso[1] = <<>> THEN <<>>
        ELSE <<cit.inciso[1]>>)
    \o (IF cit.alinea = None \/ cit.alinea[1] = <<>> THEN <<>>
        ELSE <<<<"a","l","i","n","e","a"," ">> \o cit.alinea[1]>>)

\* The texts of parts, a comma and a space between two of them.
RECURSIVE CommaJoined(_)
CommaJoined(parts) ==
  IF Len(parts) = 1 THEN parts[1]
  ELSE parts[1] \o <<","," ">> \o CommaJoined(Tail(parts))

\* C14: the pinpoint fragment is the elements present, each once, joined by
\* commas in the order article, paragraph, inciso, alinea: the article with
\* the ordinal suffix, paragraph 'unico' as 'paragrafo unico', a numeric
\* paragraph with the paragraph mark and the ordinal suffix.
C14_PinpointOrder ==
  (Formatted /\ format = "pinpoint" /\ Usable(parsed)) =>
    formatted = <<"A","r","t","."," ">> \o CommaJoined(PresentElements(parsed))

C14_Witness ==
  /\ Formatted /\ format = "pinpoint"
  /\ parsed.paragraph = Some(<<"2">>) /\ parsed.inciso = Some(<<"I","I">>)
  /\ parsed.alinea = Some(<<"b">>)
  /\ formatted = <<"A","r","t","."," ","5","ORD_M",","," ","SECT"," ","2","ORD_M",","," ","I","I",","," ","a","l","i","n","e","a"," ","b">>

(***************************************************************************)
(* The document store and the validator                                    *)
(***************************************************************************)
\* One character of a LIKE pattern: % is any text, _ any character, and a
\* letter matches in either case.
LikeNode(c) ==
  IF c = "%" THEN Star(Dot) ELSE IF c = "_" THEN Dot ELSE Set({LowerChar(c)})

\* text LIKE pattern
Like(pattern, text) ==
  Match(Cat(<<Bol>> \o [i \in 1..Len(pattern) |-> LikeNode(pattern[i])] \o <<Eol>>),
        text, 1, NoCaps(0)) # <<>>

\* SELECT ... FROM legal_documents WHERE id = ? LIMIT 1: the rows it can
\* give (none or one; id is the key of the table).
DocumentsById(store, id) == {doc \in store.documents : doc.id = id}

\* SELECT ... FROM legal_documents WHERE title LIKE ? LIMIT 1: the rows it
\* can give (no order is asked for: any row that matches).
DocumentsByTitle(store, pattern) ==
  {doc \in store.documents : Like(pattern, doc.title)}

\* SELECT 1 FROM legal_provisions WHERE document_id = ? AND (provision_ref
\* = ? OR provision_ref = ? OR section = ? OR section = ?) LIMIT 1
ProvisionFound(store, documentId, artRef, artDot, article) ==
  \E prov \in store.provisions :
    /\ prov.document_id = documentId
    /\ \/ prov.provision_ref = artRef \/ prov.provision_ref = artDot
       \/ prov.section = article \/ prov.section = artRef

\* `${type}-...`: an undefined type prints as 'undefined'.
TypeText(type) == IF type = None THEN <<"u","n","d","e","f","i","n","e","d">> ELSE type[1]

\* Build a document ID from parsed citation components.
buildDocumentId(type, number, year) ==
  IF type = Some(<<"c","o","n","s","t","i","t","u","i","c","a","o">>)
  THEN <<"c","o","n","s","t","i","t","u","i","c","a","o","-">> \o NumberOr(year, <<"1","9","8","8">>)
  ELSE TypeText(type) \o <<"-">> \o NumberOr(number, <<"0">>) \o <<"-">>
         \o NumberOr(year, <<"0">>)

\* The statements validateCitation runs against the store, as logged.
ById(id)       == [table |-> "legal_documents", where |-> "id", key |-> id]
ByTitle(pat)   == [table |-> "legal_documents", where |-> "title", key |-> pat]
ByArticle(id)  == [table |-> "legal_provisions", where |-> "document_id", key |-> id]

ValidationResult(cit, documentExists, provisionExists, title, status, warnings) ==
  [citation |-> cit, document_exists |-> documentExists,
   provision_exists |-> provisionExists, document_title |-> title,
   status |-> status, warnings |-> warnings]

\* The answer to a citation that does not parse: no statement is run.
Rejected(cit) ==
  [result  |-> ValidationResult(cit, FALSE, FALSE, None, None,
                 <<IF cit.error # None THEN cit.error[1]
                   ELSE <<"I","n","v","a","l","i","d"," ","c","i","t","a","t","i","o","n"," ","f","o","r","m","a","t">>>>),
   queries |-> <<>>]

\* A slip in the warnings: a missing provision is not reported.
FoundSilent(store, cit, doc, asked) ==
  LET repealed == IF doc.status = "repealed"
                  THEN <<<<"T","h","i","s"," ","l","a","w"," ","h","a","s"," ","b","e","e","n"," ","r","e","p","e","a","l","e","d">>>> ELSE <<>>
      hasArticle == cit.article # None /\ cit.article[1] # <<>>
      provisionExists ==
        /\ hasArticle
        /\ ProvisionFound(store, doc.id, <<"a","r","t">> \o cit.article[1],
                          <<"a","r","t","."," ">> \o cit.article[1], cit.article[1])
  IN [result  |-> ValidationResult(cit, TRUE, provisionExists, Some(doc.title),
                                   Some(doc.status), repealed),
      queries |-> asked \o (IF hasArticle THEN <<ByArticle(doc.id)>> ELSE <<>>)]

\* A slip in the repeal: a repealed law is reported without its provisions
\* being looked at.
FoundRepealedFirst(store, cit, doc, asked) ==
  LET hasArticle == cit.article # None /\ cit.article[1] # <<>>
      provisionExists ==
        /\ hasArticle
        /\ ProvisionFound(store, doc.id, <<"a","r","t">> \o cit.article[1],
                          <<"a","r","t","."," ">> \o cit.article[1], cit.article[1])
      missing == IF hasArticle /\ ~provisionExists
                 THEN <<<<"A","r","t","."," ">> \o cit.article[1] \o <<" ","n","o","t"," ","f","o","u","n","d"," ","i","n"," ">> \o doc.title>>
                 ELSE <<>>
  IN IF doc.status = "repealed"
     THEN [result  |-> ValidationResult(cit, TRUE, FALSE, Some(doc.title),
                         Some(doc.status), <<<<"T","h","i","s"," ","l","a","w"," ","h","a","s"," ","b","e","e","n"," ","r","e","p","e","a","l","e","d">>>>),
           queries |-> asked]
     ELSE [result  |-> ValidationResult(cit, TRUE, provisionExists,
                         Some(doc.title), Some(doc.status), missing),
           queries |-> asked \o (IF hasArticle THEN <<ByArticle(doc.id)>> ELSE <<>>)]

\* The answer once the document doc is found, the statements asked so far.
Found(store, cit, doc, asked) ==
  LET repealed == IF doc.status = "repealed"
                  THEN <<<<"T","h","i","s"," ","l","a","w"," ","h","a","s"," ","b","e","e","n"," ","r","e","p","e","a","l","e","d">>>> ELSE <<>>
      hasArticle == cit.article # None /\ cit.article[1] # <<>>
      provisionExists ==
        /\ hasArticle
        /\ ProvisionFound(store, doc.id, <<"a","r","t">> \o cit.article[1],
                          <<"a","r","t","."," ">> \o cit.article[1], cit.article[1])
      missing == IF hasArticle /\ ~provisionExists
                 THEN <<<<"A","r","t","."," ">> \o cit.article[1] \o <<" ","n","o","t"," ","f","o","u","n","d"," ","i","n"," ">> \o doc.title>>
                 ELSE <<>>
  IN [result  |-> ValidationResult(cit, TRUE, provisionExists, Some(doc.title),
                                   Some(doc.status), repealed \o missing),
      queries |-> asked \o (IF hasArticle THEN <<ByArticle(doc.id)>> ELSE <<>>)]

\* A slip in the order: the title is looked up before the identifier.
CheckedTitleFirst(store, cit) ==
  With(buildDocumentId(cit.type, cit.number, cit.year), LAMBDA expectedId :
    LET hasTitle == cit.title # None /\ cit.title[1] # <<>>
        pattern  == <<"%">> \o cit.title[1] \o <<"%">>
        byTitle  == IF hasTitle THEN DocumentsByTitle(store, pattern) ELSE {}
    IN With(IF hasTitle /\ byTitle # {} THEN <<ByTitle(pattern)>>
            ELSE IF hasTitle THEN <<ByTitle(pattern), ById(expectedId)>>
            ELSE <<ById(expectedId)>>, LAMBDA asked :
         With(IF byTitle # {} THEN byTitle ELSE DocumentsById(store, expectedId),
              LAMBDA docs :
           IF docs = {}
           THEN { [result  |-> ValidationResult(cit, FALSE, FALSE, None, None,
                                 <<<<"D","o","c","u","m","e","n","t"," ","\"">> \o expectedId
                                     \o <<"\""," ","n","o","t"," ","f","o","u","n","d"," ","i","n"," ","d","a","t","a","b","a","s","e">>>>),
                   queries |-> asked] }
           ELSE { Found(store, cit, doc, asked) : doc \in docs })))

\* The answers validateCitation can give for the parsed citation cit: the
\* lookup by identifier, then by title, then the provision.
Checked(store, cit) ==
  With(buildDocumentId(cit.type, cit.number, cit.year), LAMBDA expectedId :
    LET byId     == DocumentsById(store, expectedId)
        useTitle == byId = {} /\ cit.title # None /\ cit.title[1] # <<>>
        pattern  == <<"%">> \o cit.title[1] \o <<"%">>
    IN With(IF useTitle THEN <<ById(expectedId), ByTitle(pattern)>>
            ELSE <<ById(expectedId)>>, LAMBDA asked :
         With(IF useTitle THEN DocumentsByTitle(store, pattern) ELSE byId,
              LAMBDA docs :
           IF docs = {}
           THEN { [result  |-> ValidationResult(cit, FALSE, FALSE, None, None,
                                 <<<<"D","o","c","u","m","e","n","t"," ","\"">> \o expectedId
                                     \o <<"\""," ","n","o","t"," ","f","o","u","n","d"," ","i","n"," ","d","a","t","a","b","a","s","e">>>>),
                   queries |-> asked] }
           ELSE { Found(store, cit, doc, asked) : doc \in docs })))

\* A slip in the order: the store is asked before the parse is looked at.
validateCitationLookupFirst(store, citation) ==
  With(parseCitation(citation), LAMBDA cit : Checked(store, cit))

\* The answers validateCitation(db, citation) can give, each with the
\* statements it ran.
validateCitation(store, citation) ==
  With(parseCitation(citation), LAMBDA cit :
    IF ~cit.valid THEN {Rejected(cit)} ELSE Checked(store, cit))

(***************************************************************************)
(* The calls of the validator                                              *)
(***************************************************************************)
\* A row of legal_documents; the url is the page of the law at Planalto.
Document(id, title, status) ==
  [id |-> id, title |-> title, status |-> status,
   url |-> Some(<<"h","t","t","p","s",":","/","/","w","w","w",".","p","l","a","n","a","l","t","o",".","g","o","v",".","b","r","/","c","c","i","v","i","l","_","0","3","/">> \o id \o <<".","h","t","m">>)]

\* A row of legal_provisions.
Provision(id, documentId, ref, section) ==
  [id |-> id, document_id |-> documentId, provision_ref |-> ref,
   section |-> section, chapter |-> None, title |-> None,
   content |-> <<"T","e","x","t","o"," ","d","o"," ">> \o ref]

StoredDocuments ==
  { Document(<<"l","e","i","-","1","3","7","0","9","-","2","0","1","8">>, <<"L","e","i"," ","G","e","r","a","l"," ","d","e"," ","P","r","o","t","e","c","a","o"," ","d","e"," ","D","a","d","o","s"," ","P","e","s","s","o","a","i","s"," ","(","L","G","P","D",")">>, "in_force"),
    Document(<<"l","e","i","-","8","0","7","8","-","1","9","9","0">>, <<"C","o","d","i","g","o"," ","d","e"," ","D","e","f","e","s","a"," ","d","o"," ","C","o","n","s","u","m","i","d","o","r">>, "repealed"),
    Document(<<"c","o","n","s","t","i","t","u","i","c","a","o","-","1","9","8","8">>, <<"C","o","n","s","t","i","t","u","i","c","a","o"," ","d","a"," ","R","e","p","u","b","l","i","c","a"," ","F","e","d","e","r","a","t","i","v","a"," ","d","o"," ","B","r","a","s","i","l">>, "in_force"),
    Document(<<"d","e","c","r","e","t","o","-","8","7","7","1","-","2","0","1","6","-","c","o","n","s","o","l","i","d","a","d","o">>, <<"D","e","c","r","e","t","o"," ","1","2","3","/","2","0","1","8"," ","e"," ","d","e","c","r","e","t","o"," ","8",".","7","7","1","/","2","0","1","6">>, "in_force") }

StoredProvisions ==
  { Provision(30, <<"l","e","i","-","1","3","7","0","9","-","2","0","1","8">>, <<"a","r","t","1">>, <<"1">>),
    Provision(20, <<"l","e","i","-","8","0","7","8","-","1","9","9","0">>, <<"a","r","t","."," ","5">>, <<"C","a","p","i","t","u","l","o"," ","I">>),
    Provision(10, <<"c","o","n","s","t","i","t","u","i","c","a","o","-","1","9","8","8">>, <<"a","r","t","5">>, <<"5">>),
    Provision(5, <<"c","o","n","s","t","i","t","u","i","c","a","o","-","1","9","8","8">>, <<"a","r","t","."," ","5">>, <<"T","i","t","u","l","o"," ","I","I">>) }

\* A document whose identifier is the one of a text another title holds.
RegulationDocument == Document(<<"d","e","c","r","e","t","o","-","1","2","3","-","2","0","1","8">>, <<"R","e","g","u","l","a","m","e","n","t","o"," ","d","e"," ","2","0","1","8">>, "in_force")

\* The stores a call can be handed: empty, documents without provisions,
\* documents with provisions, and these with one more document.
Stores ==
  { [documents |-> {}, provisions |-> {}],
    [documents |-> StoredDocuments, provisions |-> {}],
    [documents |-> StoredDocuments, provisions |-> StoredProvisions],
    [documents |-> StoredDocuments \cup {RegulationDocument},
     provisions |-> StoredProvisions] }

\* The texts handed to validateCitation: literals of each grammar, unknown
\* aliases, identifiers whose year or number begins with zeros, texts of no
\* grammar.
ValidateTexts ==
  { sh.body : sh \in IdShapes(Identifiers, Articles, {NoPinpoint})
                \cup ShortShapes(Labels, OneNumber, OneArticle, {NoPinpoint})
                \cup ShortShapes(Labels, {CHOOSE x \in Numbers : x.value = 123}, OneArticle, {NoPinpoint})
                \cup FullShapes(OneLabel, OneNumber, OneArticle, {NoPinpoint}, {<<"a","g","o","s","t","o">>})
                \cup AliasShapes(KnownAliases \cup UnknownAliases, OneArticle, {NoPinpoint})
                \cup AliasShapes(SomeAliases, {CHOOSE x \in Articles : x.digits = <<"5">>}, {NoPinpoint})
                \cup OtherShapes(Garbage) }
    \cup { <<"l","e","i","-","1","3","7","0","9","-","0","9","9","9",","," ","a","r","t","."," ","1">>, <<"l","e","i","-","0","0","7","-","2","0","1","8",","," ","a","r","t","."," ","1">>,
           <<"A","r","t","."," ","1",","," ","L","e","i"," ","1","3",".","7","0","9","/","0","9","9","9">>, <<"c","o","n","s","t","i","t","u","i","c","a","o","-","5","-","1","9","8","8",","," ","a","r","t","."," ","5">>,
           <<"l","e","i","-","0","-","2","0","1","8",","," ","a","r","t","."," ","1">> }

\* A call validateCitation(db, citation).
ValidateCall ==
  /\ pc = "idle"
  /\ \E store \in Stores, text \in ValidateTexts :
       /\ db' = store
       /\ arg' = text
  /\ pc' = "validating"
  /\ UNCHANGED <<provisionVars, toolVars, fetcherVars,
                 given, parsed, formatterVars, statuteVars, validatorVars>>

\* The body of validateCitation.
Validate ==
  /\ pc = "validating"
  /\ \E answer \in validateCitation(db, arg) :
       /\ validation' = answer.result
       /\ queries' = answer.queries
  /\ pc' = "validated"
  /\ UNCHANGED <<provisionVars, toolVars, fetcherVars,
                 arg, given, parsed, formatterVars, db, statuteVars>>

\* The caller takes the result.
ValidateReturn ==
  /\ pc = "validated"
  /\ pc' = "idle"
  /\ arg' = <<>>
  /\ db' = {}
  /\ validation' = <<>>
  /\ queries' = <<>>
  /\ UNCHANGED <<provisionVars, toolVars, fetcherVars,
                 given, parsed, formatterVars, statuteVars>>

ValidateNext == ValidateCall \/ Validate \/ ValidateReturn

ValidateSpec == Init /\ [][ValidateNext]_vars

(***************************************************************************)
(* Properties of the validator and of the identifiers it derives           *)
(***************************************************************************)
Validated == pc = "validated"

AllDigits(s) == \A i \in 1..Len(s) : s[i] \in Digits

\* A decimal integer without leading zeros or separators.
IsDecimal(s) == s # <<>> /\ AllDigits(s) /\ (Len(s) = 1 \/ s[1] # "0")

\* '{kind}-{number}-{year}' with kind in lei, lc, mp, decreto, or
\* 'constituicao-{year}'; the year of four digits.
IsCanonicalId(id) ==
  \/ \E kind \in TypeCodes \ {<<"c","o","n","s","t","i","t","u","i","c","a","o">>} :
       /\ Prefix(kind \o <<"-">>, id)
       /\ Len(id) >= Len(kind) + 7
       /\ id[Len(id) - 4] = "-"
       /\ AllDigits(SubSeq(id, Len(id) - 3, Len(id)))
       /\ IsDecimal(SubSeq(id, Len(kind) + 2, Len(id) - 5))
  \/ /\ Prefix(<<"c","o","n","s","t","i","t","u","i","c","a","o","-">>, id)
     /\ Len(id) = Len(<<"c","o","n","s","t","i","t","u","i","c","a","o","-">>) + 4
     /\ AllDigits(SubSeq(id, Len(id) - 3, Len(id)))

\* The identifier the validator derived in this call: the key of its first
\* statement.
ExpectedId == queries[1].key

\* C15: for every text parseCitation accepts, the identifier the validator
\* derives is of the canonical identifier grammar.
C15_DerivedIdIsCanonical ==
  (Validated /\ validation.citation.valid) => IsCanonicalId(ExpectedId)

\* C16: for every valid citation c, the Constitution included, with derived
\* identifier id and article a, the text id + ', art. ' + a parses as valid
\* with the type, number, year and article of c, and the identifier derived
\* from it is id.
C16_IdentifierRoundTrip ==
  (Validated /\ WellFormedCitation(validation.citation)) =>
    LET c    == validation.citation
        back == parseCitation(ExpectedId \o <<","," ","a","r","t","."," ">> \o c.article[1])
    IN /\ back.valid
       /\ back.type = c.type /\ back.number = c.number
       /\ back.year = c.year /\ back.article = c.article
       /\ buildDocumentId(back.type, back.number, back.year) = ExpectedId

\* C20: on a text that does not parse, validateCitation answers with
\* document_exists and provision_exists false, no title and no status, and
\* the parse error as the only warning, and runs no statement against the
\* store.
C20_InvalidReturnsAtOnce ==
  (Validated /\ ~parseCitation(arg).valid) =>
    /\ validation.document_exists = FALSE
    /\ validation.provision_exists = FALSE
    /\ validation.document_title = None
    /\ validation.status = None
    /\ validation.warnings = <<ParseError(arg)>>
    /\ validation.citation = parseCitation(arg)
    /\ queries = <<>>

C20_Witness ==
  /\ Validated
  /\ arg = <<"A","r","t","."," ","1",","," ","X","Y","Z">>
  /\ db.documents # {}
  /\ ~validation.citation.valid
  /\ Len(validation.warnings) = 1
  /\ queries = <<>>

(***************************************************************************)
\* No stored document matches the citation of the call, by identifier or by
\* title.
NoMatchingDocument ==
  LET c == validation.citation
  IN /\ DocumentsById(db, ExpectedId) = {}
     /\ \/ c.title = None \/ c.title[1] = <<>>
        \/ DocumentsByTitle(db, <<"%">> \o c.title[1] \o <<"%">>) = {}

\* The statements of the call that read the provisions.
ProvisionQueries ==
  {i \in 1..Len(queries) : queries[i].table = "legal_provisions"}

\* C21: for a valid citation that no document matches, the answer has both
\* flags false and one warning, which names the expected identifier, and the
\* provisions are not read; in every answer provision_exists implies
\* document_exists, and there is no warning exactly when the document
\* exists, is not repealed and the provision exists.
C21_UnknownDocument ==
  Validated =>
    /\ (validation.citation.valid /\ NoMatchingDocument) =>
         /\ validation.document_exists = FALSE
         /\ validation.provision_exists = FALSE
         /\ Len(validation.warnings) = 1
         /\ Infix(ExpectedId, validation.warnings[1])
         /\ ProvisionQueries = {}
    /\ validation.provision_exists => validation.document_exists
    /\ (validation.warnings = <<>>) <=>
         ( /\ validation.document_exists
           /\ validation.status # Some("repealed")
           /\ validation.provision_exists )

C21_Witness ==
  /\ Validated /\ validation.citation.valid /\ NoMatchingDocument
  /\ db.documents # {}
  /\ validation.citation.title # None
  /\ validation.warnings = <<<<"D","o","c","u","m","e","n","t"," ","\"","l","c","-","1","3","7","0","9","-","2","0","1","8","\""," ","n","o","t"," ","f","o","u","n","d"," ","i","n"," ","d","a","t","a","b","a","s","e">>>>

\* The store with every repealed document in force.
InForce(store) ==
  [store EXCEPT !.documents =
     {[doc EXCEPT !.status = "in_force"] : doc \in store.documents}]

\* C22: when the document found is repealed, the answer has document_exists
\* true, the status 'repealed', a warning that mentions the repeal and a
\* citation that is still valid; the provisions are read all the same, and
\* provision_exists is what it is for the same store with the document in
\* force.
C22_RepealIsAdvisory ==
  (Validated /\ validation.status = Some("repealed")) =>
    /\ validation.document_exists
    /\ validation.citation.valid
    /\ \E i \in 1..Len(validation.warnings) :
         Infix(<<"r","e","p","e","a","l","e","d">>, validation.warnings[i])
    /\ ProvisionQueries # {}
    /\ \E answer \in validateCitation(InForce(db), arg) :
         /\ answer.result.document_title = validation.document_title
         /\ answer.result.status = Some("in_force")
         /\ answer.result.provision_exists = validation.provision_exists

C22_Witness ==
  /\ Validated /\ validation.status = Some("repealed")
  /\ validation.provision_exists
  /\ validation.warnings = <<<<"T","h","i","s"," ","l","a","w"," ","h","a","s"," ","b","e","e","n"," ","r","e","p","e","a","l","e","d">>>>

\* The statements of the call that look a title up.
TitleQueries ==
  {i \in 1..Len(queries) : queries[i].where = "title"}

\* C23: the document is looked up by the derived identifier first; the
\* title is looked up only when that finds nothing and the parse kept a
\* title, which only the full and short grammars do; when a document has the
\* derived identifier, it is the one reported, whatever the titles hold.
C23_IdentifierBeforeTitle ==
  (Validated /\ validation.citation.valid) =>
    LET c == validation.citation
    IN /\ queries[1] = ById(buildDocumentId(c.type, c.number, c.year))
       /\ TitleQueries # {} <=>
            (DocumentsById(db, ExpectedId) = {} /\ c.title # None)
       /\ TitleQueries \subseteq {2}
       /\ c.title # None => (~IdMatches /\ (FullMatches \/ ShortMatches))
       /\ \A doc \in DocumentsById(db, ExpectedId) :
            /\ validation.document_title = Some(doc.title)
            /\ validation.status = Some(doc.status)

C23_Witness ==
  /\ Validated /\ validation.citation.valid
  /\ ExpectedId = <<"d","e","c","r","e","t","o","-","1","2","3","-","2","0","1","8">>
  /\ RegulationDocument \in db.documents
  /\ DocumentsByTitle(db, <<"%">> \o validation.citation.title[1] \o <<"%">>)
       # {RegulationDocument}
  /\ validation.document_title = Some(RegulationDocument.title)
  /\ TitleQueries = {}

(* The statute identifiers                                                 *)
(***************************************************************************)
\* Well-known short names for Brazilian legislation: the own properties.
SHORT_NAME_MAP ==
  { <<<<"l","g","p","d">>, <<"l","e","i","-","1","3","7","0","9","-","2","0","1","8">>>>,
    <<<<"m","a","r","c","o"," ","c","i","v","i","l">>, <<"l","e","i","-","1","2","9","6","5","-","2","0","1","4">>>>,
    <<<<"m","a","r","c","o"," ","c","i","v","i","l"," ","d","a"," ","i","n","t","e","r","n","e","t">>, <<"l","e","i","-","1","2","9","6","5","-","2","0","1","4">>>>,
    <<<<"c","a","r","o","l","i","n","a"," ","d","i","e","c","k","m","a","n","n">>, <<"l","e","i","-","1","2","7","3","7","-","2","0","1","2">>>>,
    <<<<"l","e","i"," ","c","a","r","o","l","i","n","a"," ","d","i","e","c","k","m","a","n","n">>, <<"l","e","i","-","1","2","7","3","7","-","2","0","1","2">>>>,
    <<<<"c","d","c">>, <<"l","e","i","-","8","0","7","8","-","1","9","9","0">>>>,
    <<<<"c","o","d","i","g","o"," ","d","e"," ","d","e","f","e","s","a"," ","d","o"," ","c","o","n","s","u","m","i","d","o","r">>, <<"l","e","i","-","8","0","7","8","-","1","9","9","0">>>>,
    <<<<"c","o","d","i","g","o"," ","c","i","v","i","l">>, <<"l","e","i","-","1","0","4","0","6","-","2","0","0","2">>>>,
    <<<<"l","e","i"," ","g","e","r","a","l"," ","d","e"," ","t","e","l","e","c","o","m","u","n","i","c","a","c","o","e","s">>, <<"l","e","i","-","9","4","7","2","-","1","9","9","7">>>>,
    <<<<"l","g","t">>, <<"l","e","i","-","9","4","7","2","-","1","9","9","7">>>>,
    <<<<"c","o","n","s","t","i","t","u","i","c","a","o">>, <<"c","o","n","s","t","i","t","u","i","c","a","o","-","1","9","8","8">>>>,
    <<<<"c","o","n","s","t","i","t","u","i","c","a","o"," ","f","e","d","e","r","a","l">>, <<"c","o","n","s","t","i","t","u","i","c","a","o","-","1","9","8","8">>>>,
    <<<<"c","f">>, <<"c","o","n","s","t","i","t","u","i","c","a","o","-","1","9","8","8">>>>,
    <<<<"c","f","/","8","8">>, <<"c","o","n","s","t","i","t","u","i","c","a","o","-","1","9","8","8">>>> }

\* The values that are no string: the function Object and the object
\* Object.prototype.
FunctionObject  == <<"[Function: Object]">>
PrototypeObject == <<"[Object: null prototype] {}">>
NonStrings == {FunctionObject, PrototypeObject}

\* SHORT_NAME_MAP[key]: the own property, else the member inherited from
\* Object.prototype, else undefined.
ShortName(key) ==
  LET mine == {e \in SHORT_NAME_MAP : e[1] = key}
  IN IF mine # {} THEN Some((CHOOSE e \in mine : TRUE)[2])
     ELSE IF key = <<"c","o","n","s","t","r","u","c","t","o","r">> THEN Some(FunctionObject)
     ELSE IF key = <<"_","_","p","r","o","t","o","_","_">> THEN Some(PrototypeObject)
     ELSE None

\* ^(lei|lc|mp|decreto)\s+(?:n[ºo.]?\s*)?(\d[\d.]*)
KindAndNumber ==
  Cat(<<Bol,
        Grp(1, Alt(Lit(<<"l","e","i">>), Alt(Lit(<<"l","c">>), Alt(Lit(<<"m","p">>), Lit(<<"d","e","c","r","e","t","o">>))))),
        Plus(WS),
        Opt(Cat(<<Set({"n"}), Opt(Set({"ORD_M", "o", "."})), Star(WS)>>)),
        Grp(2, Cat(<<D, Star(Set(Digits \cup {"."}))>>))>>)

\* ...\s*(?:\/|,\s*de\s+\d{1,2}\s+de\s+\w+\s+de\s+)(\d{4})
FULL_REFERENCE ==
  Cat(<<KindAndNumber, Star(WS),
        Alt(Set({"/"}),
            Cat(<<Set({","}), Star(WS), Lit(<<"d","e">>), Plus(WS), D, Opt(D), Plus(WS),
                  Lit(<<"d","e">>), Plus(WS), Plus(Set(WordChars)), Plus(WS),
                  Lit(<<"d","e">>), Plus(WS)>>)),
        Grp(3, Cat(<<D, D, D, D>>))>>)

\* ...\s*\/\s*(\d{4})
SHORT_REFERENCE ==
  Cat(<<KindAndNumber, Star(WS), Set({"/"}), Star(WS),
        Grp(3, Cat(<<D, D, D, D>>))>>)

\* `${type}-${number}-${year}` of a match.
ReferenceId(match, input) ==
  toLowerCase(Group(match, input, 1)[1]) \o <<"-">>
    \o RemoveDots(Group(match, input, 2)[1]) \o <<"-">>
    \o Group(match, input, 3)[1]

\* Normalize a "Lei nnn/yyyy" style reference into the internal ID format.
normalizeReference(input) ==
  LET fullMatch  == Exec(FULL_REFERENCE, 3, input)
      shortMatch == Exec(SHORT_REFERENCE, 3, input)
  IN IF fullMatch.ok THEN Some(ReferenceId(fullMatch, input))
     ELSE IF shortMatch.ok THEN Some(ReferenceId(shortMatch, input))
     ELSE None

\* candidates.add(value) of a Set, the insertion order kept.
Add(seq, value) ==
  IF \E i \in 1..Len(seq) : seq[i] = value THEN seq ELSE Append(seq, value)

\* s.includes(ch)
Includes(s, ch) == \E i \in 1..Len(s) : s[i] = ch

\* s.replace(/\s+/g, '-')
SpacesToDash(s) ==
  SelectSeq([i \in 1..Len(s) |->
               IF s[i] \notin WhiteSpace THEN s[i]
               ELSE IF i = 1 \/ s[i - 1] \notin WhiteSpace THEN "-"
               ELSE "DROPPED"],
            LAMBDA c : c # "DROPPED")

\* s.replace(/-/g, ' ')
DashesToSpace(s) == [i \in 1..Len(s) |-> IF s[i] = "-" THEN " " ELSE s[i]]

\* The candidates after each step of statuteIdCandidates, from the set so
\* far: the short name, the reference notation, the separators.
AddShortName(sofar, trimmed) ==
  With(ShortName(trimmed), LAMBDA mapped :
    IF mapped # None THEN Add(sofar, mapped[1]) ELSE sofar)

AddReference(sofar, text) ==
  With(normalizeReference(text), LAMBDA normalized :
    IF normalized # None THEN Add(sofar, normalized[1]) ELSE sofar)

AddDashed(sofar, trimmed) ==
  IF Includes(trimmed, " ") THEN Add(sofar, SpacesToDash(trimmed)) ELSE sofar

AddSpaced(sofar, trimmed) ==
  IF Includes(trimmed, "-") THEN Add(sofar, DashesToSpace(trimmed)) ELSE sofar

statuteIdCandidates(id) ==
  With(trim(id), LAMBDA text :
    With(toLowerCase(text), LAMBDA trimmed :
      With(Add(<<trimmed>>, text), LAMBDA c1 :
        With(AddShortName(c1, trimmed), LAMBDA c2 :
          With(AddReference(c2, text), LAMBDA c3 :
            With(AddDashed(c3, trimmed), LAMBDA c4 :
              AddSpaced(c4, trimmed)))))))

\* What a call of resolveExistingStatuteId comes to: an id or null
\* returned, or an exception raised.
Returned(id) == [id |-> id, raised |-> FALSE]
Raised       == [id |-> None, raised |-> TRUE]

\* The ids of rows.
Ids(rows) == {Returned(Some(doc.id)) : doc \in rows}

\* resolveExistingStatuteId from the title match on.
ResolveByTitle(store, input) ==
  LET byTitle == DocumentsByTitle(store, <<"%">> \o input \o <<"%">>)
  IN IF byTitle # {} THEN Ids(byTitle) ELSE {Returned(None)}

\* resolveExistingStatuteId from the reference notation on.
ResolveByReference(store, input) ==
  LET normalized == normalizeReference(trim(input))
      fromNorm   == IF normalized # None
                    THEN DocumentsById(store, normalized[1]) ELSE {}
  IN IF fromNorm # {} THEN Ids(fromNorm) ELSE ResolveByTitle(store, input)

\* The outcomes of resolveExistingStatuteId(db, inputId).  Binding a value
\* that is no string to a statement either raises or finds no row, as the
\* driver has it.
resolveExistingStatuteId(store, input) ==
  LET exact  == DocumentsById(store, input)
      mapped == ShortName(toLowerCase(trim(input)))
      fromMap == IF mapped # None /\ mapped[1] \notin NonStrings
                 THEN DocumentsById(store, mapped[1]) ELSE {}
  IN IF exact # {} THEN Ids(exact)
     ELSE IF fromMap # {} THEN Ids(fromMap)
     ELSE (IF mapped # None /\ mapped[1] \in NonStrings THEN {Raised} ELSE {})
            \cup ResolveByReference(store, input)

(***************************************************************************)
(* The calls of the resolver                                               *)
(***************************************************************************)
\* '{kind-label} {number}/{year}' and
\* '{kind-label} {number}, de {day} de {month} de {year}'
References ==
  { l.text \o <<" ">> \o n.text \o tail
      : l \in Labels, n \in Numbers,
        tail \in {<<"/","2","0","1","8">>, <<","," ","d","e"," ","1","4"," ","d","e"," ","a","g","o","s","t","o"," ","d","e"," ","2","0","1","8">>} }

\* Identifier-like texts of every other kind: identifiers, short names,
\* references with 'nº', names inherited from Object.prototype, fragments of
\* titles, white space.
OtherInputs ==
  { <<"l","e","i","-","1","3","7","0","9","-","2","0","1","8">>, <<"L","E","I","-","1","3","7","0","9","-","2","0","1","8">>, <<"l","e","i"," ","1","3","7","0","9"," ","2","0","1","8">>, <<"l","e","i","-","8","0","7","8","-","1","9","9","0">>,
    <<"l","c","-","1","2","3","-","2","0","0","6">>, <<"L","G","P","D">>, <<"l","g","p","d">>, <<"M","a","r","c","o"," ","C","i","v","i","l">>, <<"C","F","/","8","8">>, <<"c","d","c">>,
    <<"C","o_ACUTE","d","i","g","o"," ","C","i","v","i","l">>, <<"c","o","d","i","g","o"," ","c","i","v","i","l">>, <<"c","o","n","s","t","i","t","u","i","c","a","o"," ","f","e","d","e","r","a","l">>,
    <<"L","e","i"," ","n","ORD_M"," ","1","3",".","7","0","9","/","2","0","1","8">>, <<"l","e","i"," ","1","3",".","7","0","9","/"," ","2","0","1","8">>, <<"L","e","i"," ","1","3",".","7","0","9",","," ","d","e"," ","1","4"," ","d","e"," ","m","a","r","c_CEDILLA","o"," ","d","e"," ","2","0","1","8">>,
    <<"l","c"," ","1","2","3","/","2","0","0","6">>, <<"D","e","c","r","e","t","o"," ","1","2","3","/","2","0","1","8">>, <<"D","E","C","R","E","T","O"," "," ","8",".","7","7","1","/","2","0","1","6">>,
    <<"c","o","n","s","t","r","u","c","t","o","r">>, <<"_","_","p","r","o","t","o","_","_">>, <<"C","o","n","s","u","m","i","d","o","r">>, <<"d","e","_","e">>, <<"a","-","b"," ","c">>, <<>>,
    <<"x","TAB","y">> }

InputIds == References \cup OtherInputs

\* A call statuteIdCandidates(id), the text padded with white space.
CandidatesCall ==
  /\ pc = "idle"
  /\ \E id \in InputIds, lead \in 0..MaxPad, trail \in 0..MaxPad :
       /\ lead + trail <= MaxPad
       /\ inputId' = Pad(lead) \o id \o Pad(trail)
  /\ pc' = "listing"
  /\ UNCHANGED <<provisionVars, toolVars, fetcherVars,
                 arg, given, parsed, formatterVars, db, candidates, resolved,
                 validatorVars>>

\* The body of statuteIdCandidates.
Candidates ==
  /\ pc = "listing"
  /\ candidates' = statuteIdCandidates(inputId)
  /\ pc' = "listed"
  /\ UNCHANGED <<provisionVars, toolVars, fetcherVars,
                 arg, given, parsed, formatterVars, db, inputId, resolved,
                 validatorVars>>

\* A call resolveExistingStatuteId(db, inputId).
ResolveCall ==
  /\ pc = "idle"
  /\ \E store \in Stores, id \in InputIds, lead \in 0..MaxPad, trail \in 0..MaxPad :
       /\ lead + trail <= MaxPad
       /\ db' = store
       /\ inputId' = Pad(lead) \o id \o Pad(trail)
  /\ pc' = "resolving"
  /\ UNCHANGED <<provisionVars, toolVars, fetcherVars,
                 arg, given, parsed, formatterVars, candidates, resolved,
                 validatorVars>>

\* The body of resolveExistingStatuteId.
Resolve ==
  /\ pc = "resolving"
  /\ resolved' \in resolveExistingStatuteId(db, inputId)
  /\ pc' = "resolved"
  /\ UNCHANGED <<provisionVars, toolVars, fetcherVars,
                 arg, given, parsed, formatterVars, db, inputId, candidates,
                 validatorVars>>

\* The caller takes the candidates or the identifier.
StatuteReturn ==
  /\ pc \in {"listed", "resolved"}
  /\ pc' = "idle"
  /\ db' = {}
  /\ inputId' = <<>>
  /\ candidates' = <<>>
  /\ resolved' = <<>>
  /\ UNCHANGED <<provisionVars, toolVars, fetcherVars,
                 arg, given, parsed, formatterVars, validatorVars>>

StatuteNext ==
  CandidatesCall \/ Candidates \/ ResolveCall \/ Resolve \/ StatuteReturn

StatuteSpec == Init /\ [][StatuteNext]_vars

(***************************************************************************)
(* Properties of the resolver                                              *)
(***************************************************************************)
Listed == pc = "listed"

\* seq without the elements that occur earlier in it.
RECURSIVE Deduplicated(_)
Deduplicated(seq) ==
  IF seq = <<>> THEN <<>>
  ELSE Add(Deduplicated(SubSeq(seq, 1, Len(seq) - 1)), seq[Len(seq)])

\* The candidates in the order of their steps, before deduplication.
StepsInOrder(id) ==
  LET lower      == toLowerCase(trim(id))
      alias      == {e \in SHORT_NAME_MAP : e[1] = lower}
      normalized == normalizeReference(trim(id))
  IN <<lower, trim(id)>>
       \o (IF alias # {} THEN <<(CHOOSE e \in alias : TRUE)[2]>> ELSE <<>>)
       \o (IF normalized # None THEN <<normalized[1]>> ELSE <<>>)
       \o (IF Includes(lower, " ") THEN <<SpacesToDash(lower)>> ELSE <<>>)
       \o (IF Includes(lower, "-") THEN <<DashesToSpace(lower)>> ELSE <<>>)

\* C17: the candidates are strings, none twice, in the order lowercase
\* trimmed input, trimmed input, alias-table id (when the lowercase trimmed
\* input is an alias), normalized-reference id (when recognized), white
\* space to hyphen variant, hyphen to white space variant; the first is the
\* lowercase trimmed input and a value keeps the position of its first step.
C17_CandidatesInOrder ==
  Listed =>
    /\ \A i \in 1..Len(candidates) : candidates[i] \notin NonStrings
    /\ \A i, j \in 1..Len(candidates) : i # j => candidates[i] # candidates[j]
    /\ candidates[1] = toLowerCase(trim(inputId))
    /\ candidates = Deduplicated(StepsInOrder(inputId))

\* The identifier the validator derives for 'Art. 1, ' followed by the text.
ValidatorId(reference) ==
  LET cit == parseCitation(<<"A","r","t","."," ","1",","," ">> \o reference)
  IN buildDocumentId(cit.type, cit.number, cit.year)

\* C18: for every reference '{kind-label} {number}/{year}' or '{kind-label}
\* {number}, de {day} de {month} de {year}', the label any of Lei, Lei
\* Complementar, Medida Provisória, Decreto, the candidates include the
\* canonical identifier, the one the validator derives for 'Art. 1, ' and
\* the reference.
C18_ReferenceGivesCanonicalId ==
  (Listed /\ trim(inputId) \in References) =>
    /\ IsCanonicalId(ValidatorId(trim(inputId)))
    /\ \E i \in 1..Len(candidates) : candidates[i] = ValidatorId(trim(inputId))

\* The candidates of the call that are ids of stored documents, in order.
ExistingCandidates ==
  SelectSeq(statuteIdCandidates(inputId),
            LAMBDA c : \E doc \in db.documents : doc.id = c)

\* C19: the result is the first candidate, in candidate order, that is the
\* id of a stored document, when there is one; and it is always null or the
\* id of a stored document.
C19_FirstExistingCandidate ==
  (pc = "resolved" /\ ~resolved.raised) =>
    /\ ExistingCandidates # <<>> => resolved.id = Some(ExistingCandidates[1])
    /\ resolved.id # None => \E doc \in db.documents : doc.id = resolved.id[1]

(***************************************************************************)
(* get_provision                                                           *)
(***************************************************************************)
\* The safety cap of a listing.
MAX_ALL_PROVISIONS == 200

\* What a call of getProvision comes to: results that are null, one
\* provision, a list of provisions or a capped listing, or an exception.
Thrown(message) == [kind |-> "thrown", message |-> message]
Results(kind, value) == [kind |-> kind, value |-> value]

\* The message of the exception the driver raises for a parameter that is
\* no string.
BindError == <<"p","a","r","a","m","e","t","e","r"," ","i","s"," ","n","o","t"," ","a"," ","s","t","r","i","n","g">>

\* ^art\.?\s*
ART_PREFIX == Cat(<<Bol, Lit(<<"a","r","t">>), Opt(Set({"."})), Star(WS)>>)

\* s.replace(/^art\.?\s*/i, '')
DropArtPrefix(s) ==
  LET m == MatchAt(ART_PREFIX, 0, s, 1)
  IN IF m.ok THEN SubSeq(s, m.end, Len(s)) ELSE s

\* articleRef.replace(/^art\.?\s*/i, '').replace(/[ºªo°]+$/i, '').trim()
normalizedArticle(articleRef) == trim(DropOrdinals(DropArtPrefix(articleRef)))

\* SELECT url FROM legal_documents WHERE id = ?, then docRow?.url ?? the
\* address of Planalto.
BaseUrl(store, id) ==
  LET urls == {doc.url : doc \in DocumentsById(store, id)} \ {None}
  IN IF urls = {} THEN <<"h","t","t","p","s",":","/","/","w","w","w",".","p","l","a","n","a","l","t","o",".","g","o","v",".","b","r","/","c","c","i","v","i","l","_","0","3","/">>
     ELSE (CHOOSE u \in urls : TRUE)[1]

\* toResult(row, baseUrl) of a provision joined with its document.
toResult(row, doc, baseUrl) ==
  [document_id |-> row.document_id, document_title |-> doc.title,
   document_status |-> doc.status, provision_ref |-> row.provision_ref,
   chapter |-> row.chapter, section |-> row.section,
   article_number |-> DropOrdinals(DropArtPrefix(row.provision_ref)),
   title |-> row.title, content |-> row.content, text |-> row.content,
   citation_url |-> IF doc.url # None THEN doc.url[1] ELSE baseUrl]

\* FROM legal_provisions lp JOIN legal_documents ld ON ld.id =
\* lp.document_id WHERE lp.document_id = ?: the provision and the document of
\* each row.
Joined(store, id) ==
  [lp : {row \in store.provisions : row.document_id = id},
   ld : DocumentsById(store, id)]

\* ORDER BY lp.id LIMIT limit: the rows by rising id, limit of them at most.
OrderedById(joined, limit) ==
  With(joined, LAMBDA rows :
    With([j \in rows |-> Cardinality({k \in rows : k.lp.id < j.lp.id})],
         LAMBDA rank :
      With(IF Cardinality(rows) < limit THEN Cardinality(rows) ELSE limit,
           LAMBDA n : [i \in 1..n |-> CHOOSE j \in rows : rank[j] = i - 1])))

\* A slip in the cap: a law of exactly MAX_ALL_PROVISIONS provisions is
\* reported as truncated.
AllProvisionsFromCap(store, id, baseUrl) ==
  With(Cardinality({row \in store.provisions : row.document_id = id}),
       LAMBDA total :
    With(OrderedById(Joined(store, id), MAX_ALL_PROVISIONS), LAMBDA rows :
      With([i \in 1..Len(rows) |-> toResult(rows[i].lp, rows[i].ld, baseUrl)],
           LAMBDA mapped :
        IF total >= MAX_ALL_PROVISIONS
        THEN Results("capped",
                     [provisions |-> mapped, truncated |-> TRUE, total |-> total])
        ELSE Results("list", mapped))))

\* getProvision with no article reference: SELECT COUNT(*), then the rows
\* in the order of their ids, MAX_ALL_PROVISIONS at most.
AllProvisions(store, id, baseUrl) ==
  With(Cardinality({row \in store.provisions : row.document_id = id}),
       LAMBDA total :
    With(OrderedById(Joined(store, id), MAX_ALL_PROVISIONS), LAMBDA rows :
      With([i \in 1..Len(rows) |-> toResult(rows[i].lp, rows[i].ld, baseUrl)],
           LAMBDA mapped :
        IF total > MAX_ALL_PROVISIONS
        THEN Results("capped",
                     [provisions |-> mapped, truncated |-> TRUE, total |-> total])
        ELSE Results("list", mapped))))

\* The orders a statement without ORDER BY can give its rows in.
Orders(rows) ==
  { f \in [1..Cardinality(rows) -> rows] :
      \A i, k \in 1..Cardinality(rows) : i # k => f[i] # f[k] }

\* A slip in the spellings: 'art. {a}' is not looked for.
ArticleRowsWithoutDot(store, id, article) ==
  { j \in Joined(store, id) :
      \/ j.lp.provision_ref = <<"a","r","t">> \o article
      \/ j.lp.section = article \/ j.lp.section = <<"a","r","t">> \o article }

\* WHERE lp.document_id = ? AND (lp.provision_ref = ? OR lp.provision_ref = ?
\* OR lp.section = ? OR lp.section = ?)
ArticleRows(store, id, article) ==
  { j \in Joined(store, id) :
      \/ j.lp.provision_ref = <<"a","r","t">> \o article
      \/ j.lp.provision_ref = <<"a","r","t","."," ">> \o article
      \/ j.lp.section = article \/ j.lp.section = <<"a","r","t">> \o article }

\* getProvision with an article reference.
OneProvision(store, id, baseUrl, articleRef) ==
  LET rows == ArticleRows(store, id, normalizedArticle(articleRef))
  IN IF rows = {} THEN {Results("null", None)}
     ELSE IF Cardinality(rows) = 1
     THEN { Results("one", toResult(j.lp, j.ld, baseUrl)) : j \in rows }
     ELSE { Results("list", [i \in 1..Len(f) |-> toResult(f[i].lp, f[i].ld, baseUrl)])
              : f \in Orders(rows) }

\* getProvision once the document is resolved to id.
Provided(store, id, input) ==
  LET articleRef == IF input.provision_ref # None THEN input.provision_ref
                    ELSE input.article
      baseUrl    == BaseUrl(store, id)
  IN IF articleRef = None \/ articleRef[1] = <<>>
     THEN {AllProvisions(store, id, baseUrl)}
     ELSE OneProvision(store, id, baseUrl, articleRef[1])

\* The outcomes of getProvision(db, input).
getProvision(store, input) ==
  LET docInput == IF input.document_id # None THEN input.document_id
                  ELSE input.law_identifier
  IN IF docInput = None \/ docInput[1] = <<>>
     THEN {Thrown(<<"d","o","c","u","m","e","n","t","_","i","d"," ","o","r"," ","l","a","w","_","i","d","e","n","t","i","f","i","e","r"," ","i","s"," ","r","e","q","u","i","r","e","d">>)}
     ELSE UNION { IF r.raised THEN {Thrown(BindError)}
                  ELSE Provided(store,
                                IF r.id # None THEN r.id[1] ELSE docInput[1],
                                input)
                    : r \in resolveExistingStatuteId(store, docInput[1]) }

(***************************************************************************)
(* The calls of get_provision                                              *)
(***************************************************************************)
\* The provisions over the cap that the largest law of the stores has.
MaxOver == 1

\* The Civil Code, its url not stored.
CivilCode ==
  [Document(<<"l","e","i","-","1","0","4","0","6","-","2","0","0","2">>, <<"C","o","d","i","g","o"," ","C","i","v","i","l">>, "in_force") EXCEPT !.url = None]

\* The articles 1..n of the Civil Code, the later articles stored first.
CivilCodeProvisions(n) ==
  { Provision(1000 - i, <<"l","e","i","-","1","0","4","0","6","-","2","0","0","2">>, <<"a","r","t">> \o Decimal(i), Decimal(i))
      : i \in 1..n }

\* The stores of the calls: those of the validator, and stores where the
\* Civil Code has about MAX_ALL_PROVISIONS provisions.
ProvisionStores ==
  Stores \cup
  { [documents  |-> StoredDocuments \cup {CivilCode},
     provisions |-> StoredProvisions \cup CivilCodeProvisions(n)]
      : n \in (MAX_ALL_PROVISIONS - 1)..(MAX_ALL_PROVISIONS + MaxOver) }

\* The inputs of the calls.
Requests ==
  [document_id    : {None, Some(<<>>), Some(<<"l","e","i","-","1","3","7","0","9","-","2","0","1","8">>),
                     Some(<<"l","e","i","-","1","0","4","0","6","-","2","0","0","2">>)},
   law_identifier : {None, Some(<<"C","o","d","i","g","o"," ","C","i","v","i","l">>), Some(<<"C","F">>),
                     Some(<<"L","e","i"," ","8",".","0","7","8","/","1","9","9","0">>), Some(<<"c","o","n","s","t","r","u","c","t","o","r">>),
                     Some(<<"l","e","i","-","1","-","2","0","0","0">>)},
   article        : {None, Some(<<>>), Some(<<"1">>), Some(<<"A","r","t","."," ","5","ORD_M">>),
                     Some(<<"a","r","t","5","o">>), Some(<<"9","9">>)},
   provision_ref  : {None, Some(<<"a","r","t","1">>)}]

\* The inputs of the calls on the stores of the Civil Code.
ListingRequests ==
  { r \in Requests :
      /\ r.document_id \in {None, Some(<<"l","e","i","-","1","0","4","0","6","-","2","0","0","2">>)}
      /\ r.law_identifier \in {None, Some(<<"C","o","d","i","g","o"," ","C","i","v","i","l">>)}
      /\ r.provision_ref = None
      /\ r.article \in {None, Some(<<"1">>)} }

\* A call getProvision(db, input).
ProvisionCall ==
  /\ pc = "idle"
  /\ \/ db' \in Stores /\ request' \in Requests
     \/ db' \in ProvisionStores /\ request' \in ListingRequests
  /\ pc' = "providing"
  /\ UNCHANGED <<arg, given, parsed, formatterVars, statuteVars,
                 validatorVars, response, toolVars, fetcherVars>>

\* The body of getProvision.
Provide ==
  /\ pc = "providing"
  /\ response' \in getProvision(db, request)
  /\ pc' = "provided"
  /\ UNCHANGED <<arg, given, parsed, formatterVars, db, statuteVars,
                 validatorVars, request, toolVars, fetcherVars>>

\* The caller takes the result.
ProvisionReturn ==
  /\ pc = "provided"
  /\ pc' = "idle"
  /\ db' = {}
  /\ request' = <<>>
  /\ response' = <<>>
  /\ UNCHANGED <<arg, given, parsed, formatterVars, statuteVars,
                 validatorVars, toolVars, fetcherVars>>

ProvisionNext == ProvisionCall \/ Provide \/ ProvisionReturn

\* The calls of get_provision, one after the other.
ProvisionSpec == Init /\ [][ProvisionNext]_vars

(***************************************************************************)
(* Properties of get_provision                                             *)
(***************************************************************************)
\* getProvision has answered the call.
ProvisionDone == pc = "provided"

\* The document the call names: document_id, else law_identifier.
DocInput ==
  IF request.document_id # None THEN request.document_id
  ELSE request.law_identifier

\* The call names no article: neither article nor provision_ref has text.
NoArticleRef ==
  /\ request.article \in {None, Some(<<>>)}
  /\ request.provision_ref \in {None, Some(<<>>)}

\* The laws the document of the call can resolve to: the identifier the
\* resolver finds, else the text as supplied.
ResolvedLaws ==
  { IF r.id # None THEN r.id[1] ELSE DocInput[1]
      : r \in {o \in resolveExistingStatuteId(db, DocInput[1]) : ~o.raised} }

\* The provisions of a listing, capped or not.
ListingOf(resp) ==
  IF resp.kind = "capped" THEN resp.value.provisions ELSE resp.value

\* The list holds provisions of law, each once, by rising row id, and no
\* provision of the law left out has a lower row id than one in the list.
InStoredOrder(list, law) ==
  LET rows == {p \in db.provisions : p.document_id = law}
      ids  == [i \in 1..Len(list) |->
                 (CHOOSE p \in rows :
                    /\ p.provision_ref = list[i].provision_ref
                    /\ p.section = list[i].section).id]
  IN /\ \A i \in 1..Len(list) :
          /\ list[i].document_id = law
          /\ \E p \in rows :
               /\ p.provision_ref = list[i].provision_ref
               /\ p.section = list[i].section
               /\ p.content = list[i].content
     /\ \A i \in 1..(Len(list) - 1) : ids[i] < ids[i + 1]
     /\ list # <<>> =>
          Cardinality({p \in rows : p.id <= ids[Len(list)]}) = Len(list)

\* C24: a call without an article returns at most MAX_ALL_PROVISIONS
\* provisions of the resolved law in stored order: the object {provisions,
\* truncated: true, total} with the full count when the law has more, the
\* plain list of all its provisions otherwise; a call that names no document
\* fails with an error.
C24_ListingIsCapped ==
  ProvisionDone =>
    /\ (request.document_id = None /\ request.law_identifier = None) =>
         response.kind = "thrown"
    /\ (NoArticleRef /\ response.kind # "thrown") =>
         /\ response.kind \in {"list", "capped"}
         /\ Len(ListingOf(response)) <= MAX_ALL_PROVISIONS
         /\ \E law \in ResolvedLaws :
              LET total ==
                    Cardinality({p \in db.provisions : p.document_id = law})
              IN /\ InStoredOrder(ListingOf(response), law)
                 /\ total > MAX_ALL_PROVISIONS =>
                      /\ response.kind = "capped"
                      /\ response.value.truncated = TRUE
                      /\ response.value.total = total
                      /\ Len(ListingOf(response)) = MAX_ALL_PROVISIONS
                 /\ total <= MAX_ALL_PROVISIONS =>
                      /\ response.kind = "list"
                      /\ Len(ListingOf(response)) = total

C24_Witness ==
  /\ ProvisionDone /\ NoArticleRef
  /\ request.document_id = None
  /\ response.kind = "capped"
  /\ response.value.total = MAX_ALL_PROVISIONS + 1
  /\ Len(response.value.provisions) = MAX_ALL_PROVISIONS
  /\ response.value.provisions[1].provision_ref = <<"a","r","t","2","0","1">>
  /\ response.value.provisions[1].citation_url
       = <<"h","t","t","p","s",":","/","/","w","w","w",".","p","l","a","n","a","l","t","o",".","g","o","v",".","b","r","/","c","c","i","v","i","l","_","0","3","/">>

(***************************************************************************)
(* The validator and get_provision on one store                            *)
(***************************************************************************)
\* The documents the answer of the validator reports.
ReportedDocuments ==
  { d \in db.documents :
      /\ validation.document_title = Some(d.title)
      /\ validation.status = Some(d.status) }

\* The outcomes of getProvision for the document d and the article of the
\* citation.
ProvisionOf(d) ==
  getProvision(db, [document_id |-> Some(d.id), law_identifier |-> None,
                    article |-> validation.citation.article,
                    provision_ref |-> None])

\* The validator reports the provision exactly when getProvision returns
\* one.
SameProvisionExistence ==
  (Validated /\ validation.citation.valid /\ validation.document_exists) =>
    /\ ReportedDocuments # {}
    /\ \A d \in ReportedDocuments :
         /\ ProvisionOf(d) # {}
         /\ \A o \in ProvisionOf(d) :
              validation.provision_exists <=> o.kind \in {"one", "list"}

TOOLS ==
  << <<"s","e","a","r","c","h","_","l","e","g","i","s","l","a","t","i","o","n">>, <<"g","e","t","_","p","r","o","v","i","s","i","o","n">>, <<"l","i","s","t","_","s","o","u","r","c","e","s">>,
     <<"v","a","l","i","d","a","t","e","_","c","i","t","a","t","i","o","n">>, <<"b","u","i","l","d","_","l","e","g","a","l","_","s","t","a","n","c","e">>, <<"f","o","r","m","a","t","_","c","i","t","a","t","i","o","n">>,
     <<"c","h","e","c","k","_","c","u","r","r","e","n","c","y">>, <<"g","e","t","_","e","u","_","b","a","s","i","s">>, <<"g","e","t","_","b","r","a","z","i","l","i","a","n","_","i","m","p","l","e","m","e","n","t","a","t","i","o","n","s">>,
     <<"s","e","a","r","c","h","_","e","u","_","i","m","p","l","e","m","e","n","t","a","t","i","o","n","s">>, <<"g","e","t","_","p","r","o","v","i","s","i","o","n","_","e","u","_","b","a","s","i","s">>,
     <<"v","a","l","i","d","a","t","e","_","e","u","_","c","o","m","p","l","i","a","n","c","e">> >>

\* The name of ABOUT_TOOL.
ABOUT_TOOL == <<"a","b","o","u","t">>

\* buildTools(context)
buildTools(ctx) == IF ctx THEN TOOLS \o <<ABOUT_TOOL>> ELSE TOOLS

\* The case labels of the switch that reach an implementation with the
\* store and the arguments.
DispatchCases ==
  { <<"s","e","a","r","c","h","_","l","e","g","i","s","l","a","t","i","o","n">>, <<"g","e","t","_","p","r","o","v","i","s","i","o","n">>, <<"l","i","s","t","_","s","o","u","r","c","e","s">>,
    <<"v","a","l","i","d","a","t","e","_","c","i","t","a","t","i","o","n">>, <<"b","u","i","l","d","_","l","e","g","a","l","_","s","t","a","n","c","e">>, <<"f","o","r","m","a","t","_","c","i","t","a","t","i","o","n">>,
    <<"c","h","e","c","k","_","c","u","r","r","e","n","c","y">>, <<"g","e","t","_","e","u","_","b","a","s","i","s">>, <<"g","e","t","_","b","r","a","z","i","l","i","a","n","_","i","m","p","l","e","m","e","n","t","a","t","i","o","n","s">>,
    <<"s","e","a","r","c","h","_","e","u","_","i","m","p","l","e","m","e","n","t","a","t","i","o","n","s">>, <<"g","e","t","_","p","r","o","v","i","s","i","o","n","_","e","u","_","b","a","s","i","s">>,
    <<"v","a","l","i","d","a","t","e","_","e","u","_","c","o","m","p","l","i","a","n","c","e">> }

\* What the implementation of a tool comes to: a result, a result that
\* JSON.stringify rejects, an Error thrown, or a value thrown that is no
\* Error.
Returns(value)      == [kind |-> "returns", value |-> value]
Unserializable      == [kind |-> "unserializable",
                        value |-> <<"D","o"," ","n","o","t"," ","k","n","o","w"," ","h","o","w"," ","t","o"," ","s","e","r","i","a","l","i","z","e"," ","a"," ","B","i","g","I","n","t">>]
ThrowsError(message) == [kind |-> "throws", value |-> message]
ThrowsValue(value)  == [kind |-> "throwsValue", value |-> value]

\* The mapping of the arguments of get_provision to the input of
\* getProvision.
ProvisionInput(args) ==
  [law_identifier |-> args.law_identifier,
   document_id    |-> IF args.document_id # None THEN args.document_id
                      ELSE args.law_identifier,
   article        |-> args.article,
   provision_ref  |-> args.provision_ref]

\* await getProvision(db, {...}): its outcomes as those of an implementation.
ProvisionOutcomes(store, args) ==
  { IF o.kind = "thrown" THEN ThrowsError(o.message) ELSE Returns(o)
      : o \in getProvision(store, ProvisionInput(args)) }

\* A response of the handler: one text, and isError when set.
Response(text, isError) ==
  [kind |-> "response", content |-> <<[type |-> "text", text |-> text]>>,
   isError |-> isError]

\* JSON.stringify(result, null, 2)
Json(value) == [json |-> value]

\* error instanceof Error ? error.message : String(error)
MessageOf(outcome) == outcome.value

\* A slip in the catch clause: a thrown value that is no Error is thrown
\* again.
CaughtErrorsOnly(outcome) ==
  IF outcome.kind = "throwsValue"
  THEN [kind |-> "propagated", content |-> <<>>, isError |-> None]
  ELSE Response(<<"E","r","r","o","r",":"," ">> \o MessageOf(outcome), Some(TRUE))

\* The catch clause.
Caught(outcome) == Response(<<"E","r","r","o","r",":"," ">> \o MessageOf(outcome), Some(TRUE))

\* The body of the try block once the implementation has come to outcome.
Answered(outcome) ==
  IF outcome.kind = "returns" THEN Response(Json(outcome.value), None)
  ELSE Caught(outcome)

\* The handler of a tools/call request for the tool name, the implementation
\* coming to outcome.
CallToolHandler(ctx, name, outcome) ==
  IF name \in DispatchCases THEN Answered(outcome)
  ELSE IF name = <<"a","b","o","u","t">>
  THEN IF ctx THEN Answered(outcome)
       ELSE Response(<<"A","b","o","u","t"," ","t","o","o","l"," ","n","o","t"," ","c","o","n","f","i","g","u","r","e","d",".">>, Some(TRUE))
  ELSE Response(<<"E","r","r","o","r",":"," ","U","n","k","n","o","w","n"," ","t","o","o","l"," ","\"">> \o name \o <<"\"",".">>, Some(TRUE))

(***************************************************************************)
(* The requests of the server                                              *)
(***************************************************************************)
\* Names that are no tool of the server.
OtherNames == { <<"u","n","k","n","o","w","n","_","t","o","o","l">>, <<"A","b","o","u","t">>, <<"c","o","n","s","t","r","u","c","t","o","r">>, <<>> }

\* The arguments of a get_provision request.
ProvisionArgs ==
  [law_identifier : {None, Some(<<"L","G","P","D">>)},
   document_id    : {None, Some(<<"l","e","i","-","1","3","7","0","9","-","2","0","1","8">>)},
   article        : {None, Some(<<"1">>), Some(<<"9","9">>)},
   provision_ref  : {None}]

\* The outcomes of the implementations that are outside this module.
Outcomes ==
  { Returns(<<"{","}">>), Unserializable, ThrowsError(<<"n","o"," ","s","u","c","h"," ","t","a","b","l","e",":"," ","l","e","g","a","l","_","d","o","c","u","m","e","n","t","s">>),
    ThrowsValue(<<"t","i","m","e","o","u","t">>) }

\* registerTools(server, db, context): the server is set up with or without
\* an about-context.
Register ==
  /\ pc = "idle"
  /\ context' = ~context
  /\ UNCHANGED <<pc, arg, given, parsed, formatterVars, db, statuteVars,
                 validatorVars, provisionVars, tool, reply, fetcherVars>>

\* A tools/list request.
ListTools ==
  /\ pc = "idle"
  /\ tool' = [name |-> <<"t","o","o","l","s","/","l","i","s","t">>, outcome |-> Returns(<<>>)]
  /\ reply' = [kind |-> "tools", tools |-> buildTools(context)]
  /\ pc' = "answered"
  /\ UNCHANGED <<arg, given, parsed, formatterVars, db, statuteVars,
                 validatorVars, provisionVars, context, fetcherVars>>

\* A tools/call request for get_provision arrives; its implementation runs
\* on the store.
CallProvisionTool ==
  /\ pc = "idle"
  /\ \E store \in {s \in Stores : s.provisions # {}}, args \in ProvisionArgs :
       /\ db' = store
       /\ \E outcome \in ProvisionOutcomes(store, args) :
            tool' = [name |-> <<"g","e","t","_","p","r","o","v","i","s","i","o","n">>, outcome |-> outcome]
  /\ pc' = "dispatching"
  /\ UNCHANGED <<arg, given, parsed, formatterVars, statuteVars,
                 validatorVars, provisionVars, context, reply, fetcherVars>>

\* A tools/call request for any other name arrives.
CallTool ==
  /\ pc = "idle"
  /\ \E name \in (DispatchCases \ {<<"g","e","t","_","p","r","o","v","i","s","i","o","n">>}) \cup {ABOUT_TOOL}
                   \cup OtherNames,
        outcome \in Outcomes :
       tool' = [name |-> name, outcome |-> outcome]
  /\ pc' = "dispatching"
  /\ UNCHANGED <<arg, given, parsed, formatterVars, db, statuteVars,
                 validatorVars, provisionVars, context, reply, fetcherVars>>

\* The handler answers the request.
HandleCall ==
  /\ pc = "dispatching"
  /\ reply' = CallToolHandler(context, tool.name, tool.outcome)
  /\ pc' = "answered"
  /\ UNCHANGED <<arg, given, parsed, formatterVars, db, statuteVars,
                 validatorVars, provisionVars, context, tool, fetcherVars>>

\* The client takes the answer.
ToolReturn ==
  /\ pc = "answered"
  /\ pc' = "idle"
  /\ db' = {}
  /\ tool' = <<>>
  /\ reply' = <<>>
  /\ UNCHANGED <<arg, given, parsed, formatterVars, statuteVars,
                 validatorVars, provisionVars, context, fetcherVars>>

ToolNext ==
  Register \/ ListTools \/ CallProvisionTool \/ CallTool \/ HandleCall
    \/ ToolReturn

ToolSpec == Init /\ [][ToolNext]_vars

(***************************************************************************)
(* Properties of the tool registry                                         *)
(***************************************************************************)
\* The handler has answered a tools/call request.
Handled == pc = "answered" /\ tool.name # <<"t","o","o","l","s","/","l","i","s","t">>

\* The names a tools/list request returns.
ListedNames == {buildTools(context)[i] : i \in 1..Len(buildTools(context))}

\* C27: the handler always answers with a response; what an implementation
\* throws becomes isError=true with the text 'Error: <message>'; an unknown
\* name, and 'about' without a context, give isError=true; tools/list
\* returns the 12 base tools and 'about' exactly when a context is supplied,
\* and every name it returns reaches its implementation and is never
\* reported unknown.
C27_HandlerAlwaysAnswers ==
  /\ Len(TOOLS) = 12
  /\ Cardinality(ListedNames) = Len(buildTools(context))
  /\ ABOUT_TOOL \in ListedNames <=> context
  /\ (pc = "answered" /\ tool.name = <<"t","o","o","l","s","/","l","i","s","t">>) =>
       reply.tools = buildTools(context)
  /\ Handled =>
       /\ reply.kind = "response"
       /\ Len(reply.content) = 1
       /\ tool.name \notin DispatchCases \cup {ABOUT_TOOL} =>
            reply.isError = Some(TRUE)
       /\ (tool.name = ABOUT_TOOL /\ ~context) => reply.isError = Some(TRUE)
       /\ tool.name \in ListedNames =>
            /\ tool.outcome.kind = "returns" =>
                 /\ reply.isError = None
                 /\ reply.content[1].text = Json(tool.outcome.value)
            /\ tool.outcome.kind \in {"throws", "throwsValue"} =>
                 /\ reply.isError = Some(TRUE)
                 /\ reply.content[1].text = <<"E","r","r","o","r",":"," ">> \o tool.outcome.value
            /\ tool.outcome.kind = "unserializable" =>
                 reply.isError = Some(TRUE)

C27_Witness ==
  /\ Handled /\ tool.name = <<"g","e","t","_","p","r","o","v","i","s","i","o","n">>
  /\ tool.outcome.kind = "throws"
  /\ reply.isError = Some(TRUE)
  /\ reply.content[1].text = <<"E","r","r","o","r",":"," ","d","o","c","u","m","e","n","t","_","i","d"," ","o","r"," ","l","a","w","_","i","d","e","n","t","i","f","i","e","r"," ","i","s"," ","r","e","q","u","i","r","e","d">>

(***************************************************************************)
(* The rate-limited HTTP client of the ingestion scripts                   *)
(***************************************************************************)
MIN_DELAY_MS == 500

\* The parameter default of fetchWithRateLimit(url, maxRetries = 3).
DefaultMaxRetries == 3

\* The time a response takes to arrive, in milliseconds.
Latency == 100

\* The statuses of the responses.
Statuses == {200, 429, 499, 500}

\* The values of the parameter maxRetries: absent, or given.
RetryParams == {None, Some(0), Some(1)}

RECURSIVE Pow(_, _)
\* Math.pow(base, exponent) for a natural exponent.
Pow(base, exponent) ==
  IF exponent = 0 THEN 1 ELSE base * Pow(base, exponent - 1)

\* The wait before the retry that follows attempt, counted from one second.
BackoffFromOne(attempt) == Pow(2, attempt) * 1000

\* const backoff = Math.pow(2, attempt + 1) * 1000
Backoff(attempt) == Pow(2, attempt + 1) * 1000

\* response.status === 429 || response.status >= 500
Retryable(status) == status = 429 \/ status >= 500

\* fetch(url, ...) is started by the caller: the request is on the wire.
Issue(caller) == issued' = Append(issued, [by |-> caller, at |-> now])

\* The first pass of the loop: attempt = 0 and the request is started; the
\* response arrives after the latency.
FirstAttempt(caller, record) ==
  /\ calls' = [calls EXCEPT ![caller] =
                 [record EXCEPT !.pc = "fetching", !.attempt = 0,
                                !.wake = now + Latency]]
  /\ Issue(caller)

\* fetchWithRateLimit(url, maxRetries) is called: rateLimit() reads the clock
\* and either sets a timer for the rest of the delay or stamps
\* lastRequestTime and lets the loop start.
FetchCall(caller) ==
  /\ calls[caller].pc = "idle"
  /\ \E param \in RetryParams :
       LET record == [calls[caller] EXCEPT
                        !.asked = param,
                        !.maxRetries = IF param = None THEN DefaultMaxRetries
                                       ELSE param[1]]
           elapsed == now - lastRequestTime
       IN  IF elapsed < MIN_DELAY_MS
           THEN /\ calls' = [calls EXCEPT ![caller] =
                               [record EXCEPT
                                  !.pc = "limiting",
                                  !.wake = now + (MIN_DELAY_MS - elapsed)]]
                /\ UNCHANGED <<lastRequestTime, issued>>
           ELSE /\ lastRequestTime' = now
                /\ FirstAttempt(caller, record)
  /\ UNCHANGED <<pc, arg, given, parsed, formatterVars, db, statuteVars,
                 validatorVars, provisionVars, toolVars, now>>

\* The timer of rateLimit() fires: lastRequestTime = Date.now(), and the loop
\* starts.
Limited(caller) ==
  /\ calls[caller].pc = "limiting"
  /\ now >= calls[caller].wake
  /\ lastRequestTime' = now
  /\ FirstAttempt(caller, calls[caller])
  /\ UNCHANGED <<pc, arg, given, parsed, formatterVars, db, statuteVars,
                 validatorVars, provisionVars, toolVars, now>>

\* The response arrives with a status: the call sets the backoff timer, or
\* reads the body and returns.
Respond(caller, status) ==
  /\ calls[caller].pc = "fetching"
  /\ now >= calls[caller].wake
  /\ LET record == [calls[caller] EXCEPT !.statuses = Append(@, status)]
     IN  calls' = [calls EXCEPT ![caller] =
           IF Retryable(status) /\ record.attempt < record.maxRetries
           THEN [record EXCEPT !.pc = "backoff",
                               !.wake = now + Backoff(record.attempt)]
           ELSE [record EXCEPT !.pc = "returned",
                               !.result = Some(status)]]
  /\ UNCHANGED <<pc, arg, given, parsed, formatterVars, db, statuteVars,
                 validatorVars, provisionVars, toolVars, now, lastRequestTime,
                 issued>>

\* The backoff timer fires: continue, attempt++, and the next request is
\* started.
Retry(caller) ==
  /\ calls[caller].pc = "backoff"
  /\ now >= calls[caller].wake
  /\ calls' = [calls EXCEPT ![caller] =
                 [@ EXCEPT !.pc = "fetching", !.attempt = @ + 1,
                           !.wake = now + Latency]]
  /\ Issue(caller)
  /\ UNCHANGED <<pc, arg, given, parsed, formatterVars, db, statuteVars,
                 validatorVars, provisionVars, toolVars, now, lastRequestTime>>

\* The callers that wait for a timer or a response.
Waiting == {c \in Callers : calls[c].pc \in {"limiting", "fetching", "backoff"}}

\* Time passes until the next timer or response is due.
Advance ==
  /\ Waiting # {}
  /\ \A c \in Waiting : calls[c].wake > now
  /\ \E c \in Waiting :
       /\ \A other \in Waiting : calls[c].wake <= calls[other].wake
       /\ now' = calls[c].wake
  /\ UNCHANGED <<pc, arg, given, parsed, formatterVars, db, statuteVars,
                 validatorVars, provisionVars, toolVars, lastRequestTime,
                 calls, issued>>

FetchNext ==
  \/ \E c \in Callers : FetchCall(c)
  \/ \E c \in Callers : Limited(c)
  \/ \E c \in Callers, status \in Statuses : Respond(c, status)
  \/ \E c \in Callers : Retry(c)
  \/ Advance

FetchSpec == Init /\ [][FetchNext]_vars

\* The event loop runs every timer that is due, every request is answered,
\* and time passes.
FetchLiveSpec ==
  /\ Init
  /\ [][FetchNext]_vars
  /\ WF_vars(Advance)
  /\ \A c \in Callers :
       /\ WF_vars(Limited(c))
       /\ WF_vars(Retry(c))
       /\ WF_vars(\E status \in Statuses : Respond(c, status))

(***************************************************************************)
(* Properties of the HTTP client                                           *)
(***************************************************************************)
\* C25: any two HTTP requests the client issues, over concurrent calls and
\* retries, start at least 500 ms apart.
C25_RequestsAreSpaced ==
  \A i, j \in 1..Len(issued) :
    i < j => issued[j].at - issued[i].at >= 500

\* The times at which the requests of a caller were started, in order.
RequestTimes(caller) ==
  SelectSeq(issued, LAMBDA r : r.by = caller)

\* The waits of the claim before the first, second and third retry.
ClaimedWaits == <<2000, 4000, 8000>>

\* What C26 says of the call of one caller.
BoundedRetries(caller) ==
  LET record == calls[caller]
      times  == RequestTimes(caller)
      seen   == record.statuses
  IN  /\ record.pc # "idle" =>
           record.maxRetries = IF record.asked = None THEN 3
                               ELSE record.asked[1]
      /\ Len(times) <= record.maxRetries + 1
      /\ \A k \in 1..Len(times) - 1 :
           /\ seen[k] = 429 \/ seen[k] >= 500
           /\ times[k + 1].at - times[k].at >= ClaimedWaits[k]
      /\ record.pc = "returned" =>
           /\ Len(seen) = Len(times)
           /\ record.result = Some(seen[Len(seen)])
           /\ \/ ~(seen[Len(seen)] = 429 \/ seen[Len(seen)] >= 500)
              \/ Len(seen) = record.maxRetries + 1

AliasCall ==
  Done /\ given.grammar = "alias" /\ given.pin = NoPinpoint /\ ~given.inner

\* The short name as written in the call.
WrittenAlias ==
  LET text == trim(arg)
  IN trim(Group(Exec(ALIAS_CITATION, 2, text), text, 2)[1])

\* What the resolver's table holds under the short name of the call.
ResolverAlias == ShortName(toLowerCase(WrittenAlias))

\* The call parsed as a citation by alias.
ParsedByAlias ==
  /\ parsed.valid
  /\ ~IdMatches /\ ~FullMatches /\ ~ShortMatches /\ AliasMatches

\* C28: 'Art. N, a' parses as a valid citation by alias exactly when the
\* resolver's table of short names holds an identifier under a, and then the
\* identifier derived from the parsed citation is that identifier.
C28_AliasTablesAgree ==
  AliasCall =>
    /\ ParsedByAlias <=> ResolverAlias # None
    /\ ParsedByAlias =>
         Some(buildDocumentId(parsed.type, parsed.number, parsed.year))
           = ResolverAlias

====
